---- MODULE Spec2Model ----
(***************************************************************************)
(* The SLS repair-propagation context of src/ast/sls/sls_context.cpp:      *)
(* the Boolean bridge (add_clause, add_constraint, mk_literal), the term   *)
(* registry (register_terms), the repair worklists (new_value_eh) and the  *)
(* check() / propagate_boolean_assignment() loop with its plugin hooks.    *)
(***************************************************************************)
EXTENDS Integers, Sequences, FiniteSets, TLC

(***************************************************************************)
(* Terms.  A term is its hash-consing id; the table gives the operator,    *)
(* the arguments, whether the sort is Bool, whether the node is an         *)
(* application and the family id of its declaration.                       *)
(***************************************************************************)
null_family_id == -1
basic_family_id == 0
arith_family_id == 1

null_bool_var == -1

l_true == "l_true"
l_undef == "l_undef"
l_false == "l_false"

T(op, args, isbool, isapp, fid) ==
    [op |-> op, args |-> args, bool |-> isbool, app |-> isapp, fid |-> fid]

TermTable ==
    << T("x",    <<>>,      FALSE, TRUE,  null_family_id),   \* 1  x
       T("y",    <<>>,      FALSE, TRUE,  null_family_id),   \* 2  y
       T("le",   <<1, 2>>,  TRUE,  TRUE,  arith_family_id),  \* 3  x <= y
       T("p",    <<>>,      TRUE,  TRUE,  null_family_id),   \* 4  p
       T("not",  <<4>>,     TRUE,  TRUE,  basic_family_id),  \* 5  not p
       T("not",  <<5>>,     TRUE,  TRUE,  basic_family_id),  \* 6  not not p
       T("and",  <<>>,      TRUE,  TRUE,  basic_family_id),  \* 7  (and)
       T("or",   <<4, 3>>,  TRUE,  TRUE,  basic_family_id),  \* 8  p or x <= y
       T("and",  <<7, 3>>,  TRUE,  TRUE,  basic_family_id),  \* 9  (and) and x <= y
       T("plus", <<1, 2>>,  FALSE, TRUE,  arith_family_id),  \* 10 x + y
       T("eq",   <<10, 1>>, TRUE,  TRUE,  basic_family_id),  \* 11 x + y = x
       T("eq",   <<4, 3>>,  TRUE,  TRUE,  basic_family_id),  \* 12 p <=> x <= y
       T("ite",  <<4, 3, 11>>, TRUE, TRUE, basic_family_id), \* 13 ite(p, x <= y, x + y = x)
       T("not",  <<8>>,     TRUE,  TRUE,  basic_family_id),  \* 14 not (p or x <= y)
       T("xor",  <<4, 3>>,  TRUE,  TRUE,  basic_family_id),  \* 15 p xor x <= y
       T("true", <<>>,      TRUE,  TRUE,  basic_family_id),  \* 16 true
       T("false", <<>>,     TRUE,  TRUE,  basic_family_id),  \* 17 false
       T("forall", <<>>,    TRUE,  FALSE, null_family_id),   \* 18 a quantifier (not an application)
       T("not",  <<9>>,     TRUE,  TRUE,  basic_family_id),  \* 19 not ((and) and x <= y)
       T("not",  <<3>>,     TRUE,  TRUE,  basic_family_id),  \* 20 not (x <= y)
       T("le",   <<1, 1>>,  TRUE,  TRUE,  arith_family_id),  \* 21 x <= x
       T("and",  <<5, 3, 4>>, TRUE, TRUE, basic_family_id),  \* 22 not p and x <= y and p
       T("or",   <<9, 4>>,  TRUE,  TRUE,  basic_family_id),  \* 23 ((and) and x <= y) or p
       T("not",  <<12>>,    TRUE,  TRUE,  basic_family_id),  \* 24 not (p <=> x <= y)
       T("not",  <<13>>,    TRUE,  TRUE,  basic_family_id) >> \* 25 not ite(p, x <= y, x + y = x)

TermIds == 1..Len(TermTable)

is_app(e) == TermTable[e].app
is_bool(e) == TermTable[e].bool
get_args(e) == TermTable[e].args
get_num_args(e) == Len(TermTable[e].args)
is_not(e) == TermTable[e].op = "not" /\ get_num_args(e) = 1
is_or(e) == TermTable[e].op = "or"
is_and(e) == TermTable[e].op = "and"
is_true_term(e) == TermTable[e].op = "true"
is_false_term(e) == TermTable[e].op = "false"
is_eq(e) == TermTable[e].op = "eq" /\ get_num_args(e) = 2
is_iff(e) == is_eq(e) /\ is_bool(get_args(e)[1])
is_xor(e) == TermTable[e].op = "xor" /\ get_num_args(e) = 2
is_ite(e) == TermTable[e].op = "ite" /\ get_num_args(e) = 3

RECURSIVE get_depth(_)
get_depth(e) ==
    IF get_num_args(e) = 0 THEN 1
    ELSE 1 + (CHOOSE d \in 1..Len(TermTable) :
                 /\ \E i \in 1..get_num_args(e) : get_depth(get_args(e)[i]) = d
                 /\ \A i \in 1..get_num_args(e) : get_depth(get_args(e)[i]) <= d)

\* the family id of the sort of a term
sort_family_id(e) == IF is_bool(e) THEN basic_family_id ELSE arith_family_id

get_fid(e) ==
    IF ~is_app(e) THEN null_family_id
    ELSE IF is_eq(e) THEN sort_family_id(get_args(e)[1])
    ELSE TermTable[e].fid

(***************************************************************************)
(* Literals: sat::literal(v, sign) has index 2*v + sign.                   *)
(***************************************************************************)
literal(v, sign) == 2 * v + (IF sign THEN 1 ELSE 0)
neg_lit(l) == IF l % 2 = 0 THEN l + 1 ELSE l - 1
lit_var(l) == l \div 2
lit_sign(l) == l % 2 = 1

(***************************************************************************)
(* The plugin table: the families that have a plugin.                      *)
(***************************************************************************)
Plugins == {basic_family_id, arith_family_id}

plugin_of(fid) == IF fid \in Plugins THEN fid ELSE null_family_id

(***************************************************************************)
(* The context's bridge state as a record, so that add_clause, mk_literal  *)
(* and register_terms, which call each other, are operators on it:         *)
(*   num_vars  s.num_vars()           clauses   s.clauses()                *)
(*   atoms     m_atoms (0 = nullptr)  a2v       m_atom2bool_var            *)
(*   allterms  m_allterms             parents   m_parents                  *)
(*   todo      m_todo                 subterms  m_subterms                 *)
(*   nreg      number of register_term hook calls per term                 *)
(*   log       the terms of the register_term hook calls, in call order    *)
(***************************************************************************)
Last(s) == s[Len(s)]
Front(s) == SubSeq(s, 1, Len(s) - 1)

\* sat_solver_context::add_var
add_var(B) == [B EXCEPT !.num_vars = @ + 1]

\* sat_solver_context::add_clause
s_add_clause(lits, B) == [B EXCEPT !.clauses = Append(@, lits)]

\* m_atoms.get(v, nullptr)
atom_of(atoms, v) == IF v >= 0 /\ v < Len(atoms) THEN atoms[v + 1] ELSE 0

\* m_atoms.setx(v, e): the vector grows to v + 1 entries, new entries are null
setx(atoms, v, e) ==
    [i \in 1..(IF Len(atoms) > v + 1 THEN Len(atoms) ELSE v + 1) |->
        IF i = v + 1 THEN e ELSE IF i <= Len(atoms) THEN atoms[i] ELSE 0]

register_atom(v, e, B) ==
    [B EXCEPT !.atoms = setx(@, v, e), !.a2v = [@ EXCEPT ![e] = v]]

\* context::subterms
RECURSIVE sort_by_depth(_)
sort_by_depth(S) ==
    IF S = {} THEN <<>>
    ELSE LET m == CHOOSE x \in S : \A y \in S :
                     \/ get_depth(x) < get_depth(y)
                     \/ (get_depth(x) = get_depth(y) /\ x <= y)
         IN <<m>> \o sort_by_depth(S \ {m})

subterms(B) == IF B.subterms # <<>> THEN B.subterms ELSE sort_by_depth(B.allterms)

\* context::register_term: every plugin's register_term hook is called
register_term(e, B) ==
    [B EXCEPT !.nreg = [@ EXCEPT ![e] = @ + 1], !.log = Append(@, e)]

is_visited(e, B) == e \in B.allterms

visit(e, B) == [B EXCEPT !.allterms = @ \cup {e}]

RECURSIVE push_parents(_, _, _)
push_parents(e, i, B) ==
    IF i > get_num_args(e) THEN B
    ELSE push_parents(e, i + 1,
            [B EXCEPT !.parents = [@ EXCEPT ![get_args(e)[i]] = Append(@, e)]])

RECURSIVE push_args(_, _, _)
push_args(e, i, todo) ==
    IF i > get_num_args(e) THEN todo
    ELSE push_args(e, i + 1, Append(todo, get_args(e)[i]))

\* while (m.is_not(e, e)) neg = !neg;  the result is <<e, neg>>
RECURSIVE strip_not(_, _)
strip_not(e, neg) ==
    IF is_not(e) THEN strip_not(get_args(e)[1], ~neg) ELSE <<e, neg>>

RECURSIVE mk_literal(_, _), mk_literal_args(_, _, _, _)
RECURSIVE mk_and_args(_, _, _, _, _), mk_or_args(_, _, _, _, _)
RECURSIVE register_terms(_, _), register_loop(_)

\* one round of the loop of the and-case: r is the result of mk_literal(arg)
mk_and_arg(e, i, lit, clause, r) ==
    mk_and_args(e, i + 1, lit, Append(clause, neg_lit(r.lit)),
                s_add_clause(<<neg_lit(lit), r.lit>>, r.B))

\* the loop of the and-case of mk_literal, from argument i on
mk_and_args(e, i, lit, clause, B) ==
    IF i > get_num_args(e) THEN s_add_clause(Append(clause, lit), B)
    ELSE mk_and_arg(e, i, lit, clause, mk_literal(get_args(e)[i], B))

\* one round of the loop of the or-case: r is the result of mk_literal(arg)
mk_or_arg(e, i, lit, clause, r) ==
    mk_or_args(e, i + 1, lit, Append(clause, r.lit),
               s_add_clause(<<lit, neg_lit(r.lit)>>, r.B))

\* the loop of the or-case of mk_literal, from argument i on
mk_or_args(e, i, lit, clause, B) ==
    IF i > get_num_args(e) THEN s_add_clause(Append(clause, neg_lit(lit)), B)
    ELSE mk_or_arg(e, i, lit, clause, mk_literal(get_args(e)[i], B))

\* r is the result of mk_literal(arg): its literal joins the clause
mk_literal_arg(e, i, clause, r) ==
    mk_literal_args(e, i + 1, Append(clause, r.lit), r.B)

\* mk_literal of the arguments of e from i on, in order: the record [B, clause]
mk_literal_args(e, i, clause, B) ==
    IF i > get_num_args(e) THEN [B |-> B, clause |-> clause]
    ELSE mk_literal_arg(e, i, clause, mk_literal(get_args(e)[i], B))

\* the four clauses of the iff-case added for an xor as well
mk_iff_clauses_xor_as_iff(e, lit, r) ==
    LET lit1 == r.clause[1]
        lit2 == r.clause[2]
    IN s_add_clause(<<lit, neg_lit(lit1), neg_lit(lit2)>>,
       s_add_clause(<<lit, lit1, lit2>>,
       s_add_clause(<<neg_lit(lit), lit1, neg_lit(lit2)>>,
       s_add_clause(<<neg_lit(lit), neg_lit(lit1), lit2>>, r.B))))

\* the four clauses of the iff/xor-case; r holds lit1 and lit2
mk_iff_clauses(e, lit, r) ==
    LET lit1 == r.clause[1]
        lit2 == IF is_xor(e) THEN neg_lit(r.clause[2]) ELSE r.clause[2]
    IN s_add_clause(<<lit, neg_lit(lit1), neg_lit(lit2)>>,
       s_add_clause(<<lit, lit1, lit2>>,
       s_add_clause(<<neg_lit(lit), lit1, neg_lit(lit2)>>,
       s_add_clause(<<neg_lit(lit), neg_lit(lit1), lit2>>, r.B))))

\* the four clauses of the ite-case; r holds lit1, lit2 and lit3
mk_ite_clauses(lit, r) ==
    LET lit1 == r.clause[1]
        lit2 == r.clause[2]
        lit3 == r.clause[3]
    IN s_add_clause(<<lit, lit1, neg_lit(lit3)>>,
       s_add_clause(<<lit, neg_lit(lit1), neg_lit(lit2)>>,
       s_add_clause(<<neg_lit(lit), lit1, lit3>>,
       s_add_clause(<<neg_lit(lit), neg_lit(lit1), lit2>>, r.B))))

\* the case distinction of mk_literal for the new atom e with literal lit
mk_definition(e, lit, B) ==
    IF is_true_term(e) THEN s_add_clause(<<lit>>, B)
    ELSE IF is_false_term(e) THEN s_add_clause(<<neg_lit(lit)>>, B)
    ELSE IF is_and(e) THEN mk_and_args(e, 1, lit, <<>>, B)
    ELSE IF is_or(e) THEN mk_or_args(e, 1, lit, <<>>, B)
    ELSE IF is_iff(e) \/ is_xor(e) THEN mk_iff_clauses(e, lit, mk_literal_args(e, 1, <<>>, B))
    ELSE IF is_ite(e) THEN mk_ite_clauses(lit, mk_literal_args(e, 1, <<>>, B))
    ELSE register_terms(e, B)

\* mk_literal returning the positive literal of an atom that has its variable
mk_atom_sign_dropped(sn, B) ==
    IF B.a2v[sn[1]] # null_bool_var
    THEN [B |-> B, lit |-> literal(B.a2v[sn[1]], FALSE)]
    ELSE [B |-> mk_definition(sn[1], literal(B.num_vars, FALSE),
                              register_atom(B.num_vars, sn[1], add_var(B))),
          lit |-> literal(B.num_vars, sn[2])]

\* mk_literal allocating a variable on every call, lines 336-338 only
mk_atom_fresh(sn, B) ==
    [B |-> register_atom(B.num_vars, sn[1], add_var(B)),
     lit |-> literal(B.num_vars, sn[2])]

\* mk_literal of the atom sn[1] under the negation sn[2]
mk_atom(sn, B) ==
    IF B.a2v[sn[1]] # null_bool_var
    THEN [B |-> B, lit |-> literal(B.a2v[sn[1]], sn[2])]
    ELSE [B |-> mk_definition(sn[1], literal(B.num_vars, FALSE),
                              register_atom(B.num_vars, sn[1], add_var(B))),
          lit |-> literal(B.num_vars, sn[2])]

\* context::mk_literal(expr*): the result is the record [B, lit]
mk_literal(e0, B) == mk_atom(strip_not(e0, FALSE), B)

\* if (m.is_bool(e)) mk_literal(e);
register_bool(e, B) == IF is_bool(e) THEN mk_literal(e, B).B ELSE B

\* a round that registers an application before its arguments
register_step_args_later(e, B) ==
    IF is_visited(e, B) THEN register_loop([B EXCEPT !.todo = Front(@)])
    ELSE IF is_app(e) THEN
      register_loop(visit(e, register_term(e,
          register_bool(e, push_parents(e, 1, [B EXCEPT !.todo = push_args(e, 1, Front(@))])))))
    ELSE register_loop(visit(e, register_term(e, [B EXCEPT !.todo = Front(@)])))

\* one round of the loop of register_terms, e = m_todo.back()
register_step(e, B) ==
    IF is_visited(e, B) THEN register_loop([B EXCEPT !.todo = Front(@)])
    ELSE IF is_app(e) THEN
      IF \A i \in 1..get_num_args(e) : is_visited(get_args(e)[i], B)
      THEN register_loop(visit(e, register_term(e,
               register_bool(e, push_parents(e, 1, [B EXCEPT !.todo = Front(@)])))))
      ELSE register_loop([B EXCEPT !.todo = push_args(e, 1, @)])
    ELSE register_loop(visit(e, register_term(e, [B EXCEPT !.todo = Front(@)])))

\* the while (!m_todo.empty()) loop of register_terms
register_loop(B) == IF B.todo = <<>> THEN B ELSE register_step(Last(B.todo), B)

\* register_terms returning at once while a pass is in progress, without line 434
register_terms_no_push(e, B) ==
    IF is_visited(e, B) THEN B
    ELSE IF B.todo # <<>> THEN [B EXCEPT !.subterms = <<>>]
    ELSE register_loop([B EXCEPT !.subterms = <<>>, !.todo = <<e>>])

\* context::register_terms
register_terms(e, B) ==
    IF is_visited(e, B) THEN B
    ELSE IF B.todo # <<>> THEN [B EXCEPT !.subterms = <<>>, !.todo = Append(@, e)]
    ELSE register_loop([B EXCEPT !.subterms = <<>>, !.todo = <<e>>])

RECURSIVE add_clause(_, _), add_clause_args(_, _, _, _), add_signed(_, _, _)

\* add_clause(arg), or add_clause(not arg) when negate, for the arguments from i on.
\* add_clause(mk_not(arg)) strips the negation again (or a double negation), so it
\* is add_clause of arg with the sign flipped: that is add_signed(arg, TRUE).
add_clause_args(f, i, negate, B) ==
    IF i > get_num_args(f) THEN B
    ELSE add_clause_args(f, i + 1, negate,
            IF negate THEN add_signed(get_args(f)[i], TRUE, B)
            ELSE add_clause(get_args(f)[i], B))

\* s.add_clause of the literals of the arguments, negated when sign
add_args_clause(sign, r) ==
    s_add_clause([j \in 1..Len(r.clause) |->
                     IF sign THEN neg_lit(r.clause[j]) ELSE r.clause[j]], r.B)

\* the two clauses of the iff-case; r holds lit1 and lit2
add_iff_clauses(sign, r) ==
    LET lit1 == r.clause[1]
        lit2 == r.clause[2]
    IN s_add_clause(<<IF sign THEN neg_lit(lit1) ELSE lit1, neg_lit(lit2)>>,
       s_add_clause(<<IF sign THEN lit1 ELSE neg_lit(lit1), lit2>>, r.B))

\* the two clauses of the ite-case without the sign
add_ite_clauses_unsigned(sign, r) ==
    LET lit1 == r.clause[1]
        lit2 == r.clause[2]
        lit3 == r.clause[3]
    IN s_add_clause(<<lit1, lit3>>, s_add_clause(<<neg_lit(lit1), lit2>>, r.B))

\* the two clauses of the ite-case; r holds lit1, lit2 and lit3
add_ite_clauses(sign, r) ==
    LET lit1 == r.clause[1]
        lit2 == r.clause[2]
        lit3 == r.clause[3]
    IN s_add_clause(<<lit1, IF sign THEN neg_lit(lit3) ELSE lit3>>,
       s_add_clause(<<neg_lit(lit1), IF sign THEN neg_lit(lit2) ELSE lit2>>, r.B))

\* the unit clause of the last case; r is the result of mk_literal(f)
add_unit_clause(sign, r) ==
    s_add_clause(<<IF sign THEN neg_lit(r.lit) ELSE r.lit>>, r.B)

\* the case distinction of add_clause(expr*) after bool sign = m.is_not(f, f)
add_cases(f, sign, B) ==
    IF ~sign /\ is_or(f) THEN add_args_clause(FALSE, mk_literal_args(f, 1, <<>>, B))
    ELSE IF ~sign /\ is_and(f) THEN add_clause_args(f, 1, FALSE, B)
    ELSE IF sign /\ is_or(f) THEN add_clause_args(f, 1, TRUE, B)
    ELSE IF sign /\ is_and(f) THEN add_args_clause(TRUE, mk_literal_args(f, 1, <<>>, B))
    ELSE IF is_iff(f) THEN add_iff_clauses(sign, mk_literal_args(f, 1, <<>>, B))
    ELSE IF is_ite(f) THEN add_ite_clauses(sign, mk_literal_args(f, 1, <<>>, B))
    ELSE add_unit_clause(sign, mk_literal(f, B))

\* add_clause(expr*) of the formula "not f0" when sign0 and of "f0" otherwise
add_signed(f0, sign0, B) ==
    IF sign0 /\ is_not(f0) THEN add_clause(get_args(f0)[1], B)
    ELSE IF ~sign0 /\ is_not(f0) /\ is_not(get_args(f0)[1])
      THEN add_clause(get_args(get_args(f0)[1])[1], B)
    ELSE add_cases(IF ~sign0 /\ is_not(f0) THEN get_args(f0)[1] ELSE f0,
                   sign0 \/ is_not(f0), B)

\* context::add_clause(expr* f)
add_clause(f, B) == add_signed(f, FALSE, B)

\* context::add_clause(sat::literal_vector const&), without the flag
add_clause_lits(lits, B) == s_add_clause(lits, B)

(***************************************************************************)
(* Bounds of the model.                                                    *)
(***************************************************************************)
\* no clause is added once the skeleton has this many clauses
MaxClauses == 2

\* hooks call the context at most this many times in a behaviour
MaxHookOps == 2

\* formulas the driver asserts with add_clause(expr*) before and between checks
InputFormulas == {8}

\* formulas a plugin hook passes to add_constraint or add_clause(expr*)
HookFormulas == {7, 3}

(***************************************************************************)
(* The state of the context and of its collaborators.                      *)
(***************************************************************************)
VARIABLES
    num_vars,          \* s.num_vars()
    clauses,           \* s.clauses()
    true_vars,         \* the Boolean assignment of the SAT oracle: the true variables
    limit_ok,          \* m.inc()
    m_atoms, m_atom2bool_var, m_allterms, m_parents, m_todo, m_subterms,
    nreg,              \* number of register_term hook calls per term
    reg_log,           \* the terms of the register_term hook calls, in call order
    m_new_constraint, m_initialized, m_unit_literals,
    m_repair_down, m_repair_up,
    m_relevant, m_visited, m_root_literals,
    pc,                \* position inside check(); "idle" outside
    k,                 \* loop index at pc (plugin, root literal or Boolean variable)
    propagated,        \* local of propagate_boolean_assignment
    result,            \* value returned by the last check(), "none" while it runs
    on_model_calls,    \* s.on_model calls made by the current or last check()
    mk_model_done,     \* plugins whose mk_model ran in the current or last check()
    sat_true,          \* plugins whose is_sat returned true in the current round
    round_end,         \* <<m_new_constraint, unsat().empty(), m.inc()>> at the end of the round
    late_nv,           \* a hook of LITERAL_REPAIR or FINAL_CHECK called new_value_eh in this round
    dequeued,          \* erase_min was called in this round
    taken,             \* the ids the repair loop of this round has taken, see take
    last_op,           \* the context operation a hook or the driver called in the last step
    last_hook,         \* the plugin hook invoked in the last step: <<name, argument, result>>
    hook_ops,          \* number of context operations called by hooks so far
    dt_in,             \* the E-graph and the relevance that datatype_plugin::propagate reads
    dt_out,            \* what the last datatype_plugin::propagate returned and added
    lra,               \* the rows and columns of the lar_solver that dioph_eq reads
    m_e_matrix, m_eprime, m_f, m_s, m_k2s, m_report_branch, m_conflict_index,
    glb,               \* the counter of check() calls of namespace lp
    dio_pc,            \* position inside dioph_eq::imp::check(); "idle" outside
    dio_ret,           \* the lia_move the last dioph_eq check() returned, "none" before
    dio_calls          \* number of check() calls made on this dioph_eq

ctx_vars == <<num_vars, clauses, true_vars, limit_ok,
          m_atoms, m_atom2bool_var, m_allterms, m_parents, m_todo, m_subterms, nreg,
          reg_log, m_new_constraint, m_initialized, m_unit_literals,
          m_repair_down, m_repair_up, m_relevant, m_visited, m_root_literals,
          pc, k, propagated, result, on_model_calls, mk_model_done, sat_true,
          round_end, late_nv, dequeued, taken, last_op, last_hook, hook_ops>>

\* the state of the datatype plugin's occurs check and of the Diophantine solver
theories == <<dt_in, dt_out, lra, m_e_matrix, m_eprime, m_f, m_s, m_k2s, m_report_branch,
              m_conflict_index, glb, dio_pc, dio_ret, dio_calls>>

vars == <<ctx_vars, theories>>

\* the part of the state a plugin hook can change through the context's interface
Cur ==
    [B |-> [num_vars |-> num_vars, clauses |-> clauses, atoms |-> m_atoms,
            a2v |-> m_atom2bool_var, allterms |-> m_allterms, parents |-> m_parents,
            todo |-> m_todo, subterms |-> m_subterms, nreg |-> nreg, log |-> reg_log],
     nc |-> m_new_constraint, down |-> m_repair_down, up |-> m_repair_up,
     tv |-> true_vars, op |-> "none", ops |-> hook_ops]

Commit(C) ==
    /\ num_vars' = C.B.num_vars
    /\ clauses' = C.B.clauses
    /\ m_atoms' = C.B.atoms
    /\ m_atom2bool_var' = C.B.a2v
    /\ m_allterms' = C.B.allterms
    /\ m_parents' = C.B.parents
    /\ m_todo' = C.B.todo
    /\ m_subterms' = C.B.subterms
    /\ nreg' = C.B.nreg
    /\ reg_log' = C.B.log
    /\ m_new_constraint' = C.nc
    /\ m_repair_down' = C.down
    /\ m_repair_up' = C.up
    /\ true_vars' = C.tv
    /\ last_op' = C.op
    /\ hook_ops' = C.ops

Range(s) == {s[i] : i \in 1..Len(s)}

\* sat_solver_context::is_true(lit)
is_true(lit, tv) == (lit_var(lit) \in tv) # lit_sign(lit)

\* sat_solver_context::unsat(): the indices of the falsified clauses
unsat(cls, tv) == {i \in 1..Len(cls) : \A j \in 1..Len(cls[i]) : ~is_true(cls[i][j], tv)}

\* context::term(id)
term(id, B) == IF id \in B.allterms THEN id ELSE 0

\* new_value_eh scheduling every term of the term bank that has e as an argument
new_value_eh_bank_parents(e, C) ==
    [C EXCEPT !.down = @ \cup {e},
              !.up = @ \cup {t \in TermIds : \E i \in 1..get_num_args(t) : get_args(t)[i] = e},
              !.op = "new_value_eh"]

\* context::new_value_eh
new_value_eh(e, C) ==
    [C EXCEPT !.down = @ \cup {e}, !.up = @ \cup Range(C.B.parents[e]),
              !.op = "new_value_eh"]

\* context::add_constraint
add_constraint(e, C) ==
    [C EXCEPT !.B = add_clause(e, C.B), !.nc = TRUE, !.op = "add_constraint"]

\* add_clause(literals) without line 317
add_clause_literals_no_flag(lits, C) ==
    [C EXCEPT !.B = add_clause_lits(lits, C.B), !.op = "add_clause_lits"]

\* context::add_clause(sat::literal_vector const&)
add_clause_literals(lits, C) ==
    [C EXCEPT !.B = add_clause_lits(lits, C.B), !.nc = TRUE, !.op = "add_clause_lits"]

\* context::add_clause(expr*) called on the context
add_clause_formula(f, C) == [C EXCEPT !.B = add_clause(f, C.B), !.op = "add_clause"]

\* context::flip
flip(v, C) ==
    [C EXCEPT !.tv = IF v \in @ THEN @ \ {v} ELSE @ \cup {v}, !.op = "flip"]

\* the formulas a hook can assert without the skeleton exceeding MaxClauses clauses
fitting(B) == {f \in HookFormulas : Len(add_clause(f, B).clauses) <= MaxClauses}

\* What one call of a plugin hook can do to the context: nothing, or one call of
\* new_value_eh, add_constraint, add_clause (either overload) or flip.
Hook(C) ==
    IF C.ops >= MaxHookOps THEN {C}
    ELSE LET D == [C EXCEPT !.ops = @ + 1]
         IN {C}
            \cup {new_value_eh(e, D) : e \in D.B.allterms}
            \cup {add_constraint(f, D) : f \in fitting(C.B)}
            \cup {add_clause_formula(f, D) : f \in fitting(C.B)}
            \cup (IF Len(D.B.clauses) < MaxClauses
                  THEN {add_clause_literals(<<literal(v, TRUE)>>, D) :
                                 v \in 0..(D.B.num_vars - 1)}
                  ELSE {})
            \cup {flip(v, D) : v \in 0..(D.B.num_vars - 1)}

\* What p->repair_down(e) can do: it repairs e from above by changing the values of
\* other terms, so it does not report a new value of e itself.
RepairDownHook(e, C) == Hook(C) \ {new_value_eh(e, [C EXCEPT !.ops = @ + 1])}

\* line 104 left out
on_model_dropped(n) == n

\* s.on_model(mdl): one more model handed to the SAT engine
on_model(n) == n + 1

\* the non-null entries of m_plugins in index order
plugin_order == <<basic_family_id, arith_family_id>>

NumPlugins == Len(plugin_order)

(***************************************************************************)
(* context::reinit_relevant.  m_rand is a free choice: the reservoir       *)
(* sampling can select any candidate of a clause, the shuffle can produce  *)
(* any order.                                                              *)
(***************************************************************************)
\* the literals of a clause that have an atom, without the test of line 524
live_literals_untested(clause, atoms, tv) ==
    {clause[j] : j \in {i \in 1..Len(clause) : atom_of(atoms, lit_var(clause[i])) # 0}}

\* the literals of a clause that are true and have an atom
live_literals(clause, atoms, tv) ==
    {clause[j] : j \in {i \in 1..Len(clause) :
                          atom_of(atoms, lit_var(clause[i])) # 0 /\ is_true(clause[i], tv)}}

RECURSIVE select_roots(_, _, _, _, _, _)

\* a selection that may leave a clause with candidates without a representative
select_roots_may_skip(cls, i, atoms, tv, relevant, roots) ==
    IF i > Len(cls) THEN {<<relevant, roots>>}
    ELSE select_roots(cls, i + 1, atoms, tv, relevant, roots)
         \cup UNION {select_roots(cls, i + 1, atoms, tv,
                                  relevant \cup {atom_of(atoms, lit_var(l))},
                                  Append(roots, l)) : l \in live_literals(cls[i], atoms, tv)}

\* the set of possible <<m_relevant, m_root_literals>> after the clauses from i on
select_roots(cls, i, atoms, tv, relevant, roots) ==
    IF i > Len(cls) THEN {<<relevant, roots>>}
    ELSE
      LET live == live_literals(cls[i], atoms, tv)
          has_relevant == \E l \in live : atom_of(atoms, lit_var(l)) \in relevant
      IN IF has_relevant \/ live = {}
         THEN select_roots(cls, i + 1, atoms, tv, relevant, roots)
         ELSE UNION {select_roots(cls, i + 1, atoms, tv,
                                  relevant \cup {atom_of(atoms, lit_var(l))},
                                  Append(roots, l)) : l \in live}

\* shuffle: every permutation of a sequence
shuffle(seq) ==
    {[i \in 1..Len(seq) |-> seq[f[i]]] :
        f \in {g \in [1..Len(seq) -> 1..Len(seq)] :
                 \A a, b \in 1..Len(seq) : a # b => g[a] # g[b]}}

reinit_relevant(cls, atoms, tv) ==
    UNION {{<<o[1], sh>> : sh \in shuffle(o[2])} :
              o \in select_roots(cls, 1, atoms, tv, {}, <<>>)}

(***************************************************************************)
(* context::init                                                           *)
(***************************************************************************)
\* for (auto a : m_atoms) if (a) register_terms(a), from index i on
RECURSIVE register_atoms(_, _)
register_atoms(i, B) ==
    IF i > Len(B.atoms) THEN B
    ELSE register_atoms(i + 1,
            IF B.atoms[i] # 0 THEN register_terms(B.atoms[i], B) ELSE B)

\* the literals of the singleton clauses
unit_literals(cls) == {cls[i][1] : i \in {j \in 1..Len(cls) : Len(cls[j]) = 1}}

\* no id was taken in this round
NoneTaken == [down |-> {}, up |-> {}, state |-> "once"]

ContextInit ==
    /\ num_vars = 0
    /\ clauses = <<>>
    /\ true_vars = {}
    /\ limit_ok = TRUE
    /\ m_atoms = <<>>
    /\ m_atom2bool_var = [e \in TermIds |-> null_bool_var]
    /\ m_allterms = {}
    /\ m_parents = [e \in TermIds |-> <<>>]
    /\ m_todo = <<>>
    /\ m_subterms = <<>>
    /\ nreg = [e \in TermIds |-> 0]
    /\ reg_log = <<>>
    /\ m_new_constraint = FALSE
    /\ m_initialized = FALSE
    /\ m_unit_literals = {}
    /\ m_repair_down = {}
    /\ m_repair_up = {}
    /\ m_relevant = {}
    /\ m_visited = {}
    /\ m_root_literals = <<>>
    /\ pc = "idle"
    /\ k = 0
    /\ propagated = FALSE
    /\ result = "none"
    /\ on_model_calls = 0
    /\ mk_model_done = {}
    /\ sat_true = {}
    /\ round_end = <<>>
    /\ late_nv = FALSE
    /\ dequeued = FALSE
    /\ taken = NoneTaken
    /\ last_op = "none"
    /\ last_hook = <<"none">>
    /\ hook_ops = 0

\* no propagate() call of the datatype plugin was made
DtIdle ==
    /\ dt_in = <<>>
    /\ dt_out = <<>>

\* dioph_eq::imp as constructed, over a lar_solver without rows
DioIdle ==
    /\ lra = <<>>
    /\ m_e_matrix = <<>>
    /\ m_eprime = <<>>
    /\ m_f = <<>>
    /\ m_s = <<>>
    /\ m_k2s = <<>>
    /\ m_report_branch = FALSE
    /\ m_conflict_index = -1
    /\ glb = 0
    /\ dio_pc = "idle"
    /\ dio_ret = "none"
    /\ dio_calls = 0

Init ==
    /\ ContextInit
    /\ DtIdle
    /\ DioIdle

Oracle == <<true_vars, limit_ok>>
Registry ==
    <<m_atoms, m_atom2bool_var, m_allterms, m_parents, m_todo, m_subterms, nreg, reg_log>>
Skeleton == <<num_vars, clauses>>
Worklists == <<m_repair_down, m_repair_up>>
Relevance == <<m_relevant, m_visited, m_root_literals>>
Ghosts == <<on_model_calls, mk_model_done, sat_true, round_end, late_nv, dequeued, taken>>

(***************************************************************************)
(* The driver, between two check() calls.                                  *)
(***************************************************************************)
\* the driver has seen the result of the last check() and moves on: what the model
\* recorded about that call is dropped
Forget ==
    /\ result' = "none"
    /\ on_model_calls' = 0
    /\ mk_model_done' = {}
    /\ sat_true' = {}
    /\ round_end' = <<>>
    /\ late_nv' = FALSE
    /\ dequeued' = FALSE
    /\ taken' = NoneTaken

\* the driver asserts a formula: context::add_clause(expr*)
AssertFormula ==
    /\ pc = "idle"
    /\ UNCHANGED theories
    /\ Len(clauses) < MaxClauses
    /\ \E f \in InputFormulas : Commit(add_clause_formula(f, Cur))
    /\ last_hook' = <<"none">>
    /\ Forget
    /\ UNCHANGED <<limit_ok, m_initialized, m_unit_literals, Relevance, pc, k, propagated>>

\* the SAT engine moves to another assignment
OracleFlip ==
    /\ pc = "idle"
    /\ UNCHANGED theories
    /\ \E v \in 0..(num_vars - 1) : Commit(flip(v, Cur))
    /\ last_hook' = <<"none">>
    /\ Forget
    /\ UNCHANGED <<limit_ok, m_initialized, m_unit_literals, Relevance, pc, k, propagated>>

\* the resource limit expires (m.inc() becomes false), at any point of a check()
LimitExpires ==
    /\ pc # "idle"
    /\ UNCHANGED theories
    /\ limit_ok
    /\ limit_ok' = FALSE
    /\ last_op' = "none"
    /\ UNCHANGED hook_ops
    /\ last_hook' = <<"none">>
    /\ UNCHANGED <<Skeleton, true_vars, Registry, m_new_constraint, m_initialized,
                   m_unit_literals, Worklists, Relevance, pc, k, propagated, result, Ghosts>>

\* the driver resets the resource limit before the next call
LimitReset ==
    /\ pc = "idle"
    /\ UNCHANGED theories
    /\ ~limit_ok
    /\ limit_ok' = TRUE
    /\ last_op' = "none"
    /\ UNCHANGED hook_ops
    /\ last_hook' = <<"none">>
    /\ Forget
    /\ UNCHANGED <<Skeleton, true_vars, Registry, m_new_constraint, m_initialized,
                   m_unit_literals, Worklists, Relevance, pc, k, propagated>>

(***************************************************************************)
(* context::check and context::propagate_boolean_assignment, one action    *)
(* per hook call or loop test.                                             *)
(***************************************************************************)
\* the plugin that owns a term: m_plugins.get(get_fid(e), nullptr)
owner(e) == plugin_of(get_fid(e))

\* Return with failure reported as l_false
Return_l_false(r) == pc' = "idle" /\ result' = (IF r = l_undef THEN l_false ELSE r)

\* return r from check()
Return(r) == pc' = "idle" /\ result' = r

\* line 83 without the test of the resource limit
loop_condition_no_limit(cls, tv, inc) == unsat(cls, tv) = {}

\* while (unsat().empty() && m.inc()), line 83
loop_condition(cls, tv, inc) == unsat(cls, tv) = {} /\ inc

\* line 93 without the unsat() test
round_failed_no_unsat(nc, cls, tv) == nc

\* line 93 without the m_new_constraint test
round_failed_no_flag(nc, cls, tv) == unsat(cls, tv) # {}

\* if (m_new_constraint || !unsat().empty()) return l_undef, line 93
round_failed(nc, cls, tv) == nc \/ unsat(cls, tv) # {}

\* line 127 testing only the repair-down set
repair_condition_down_only(nc, inc, down, up) == ~nc /\ inc /\ down # {}

\* the outer repair loop test, line 127
repair_condition(nc, inc, down, up) == ~nc /\ inc /\ (up # {} \/ down # {})

\* the inner loop tests without the test of m_new_constraint
drain_condition_no_flag(nc, inc, set) == set # {} /\ inc

\* the inner loop tests, lines 128 and 141
drain_condition(nc, inc, set) == set # {} /\ ~nc /\ inc

\* the record of a round in which a hook of the repair loop called new_value_eh
Void == [down |-> {}, up |-> {}, state |-> "void"]

\* the record of the ids that erase_min took from either set, after a step that
\* took id from the set named from and whose hook called op on the context: state
\* is "again" once an id was taken from one set for the second time
take(from, id, op) ==
    IF op = "new_value_eh" \/ taken.state = "void" THEN Void
    ELSE [down |-> IF from = "down" THEN taken.down \cup {id} ELSE taken.down,
          up |-> IF from = "up" THEN taken.up \cup {id} ELSE taken.up,
          state |-> IF id \in taken[from] THEN "again" ELSE taken.state]

\* lines 135-138 putting e back into repair-down as well
escalate_requeue(e, b, C) ==
    IF ~b /\ e \notin C.up THEN [C EXCEPT !.up = @ \cup {e}, !.down = @ \cup {e}] ELSE C

\* lines 135-138 with the test of the result of repair_down inverted
escalate_inverted(e, b, C) ==
    IF b /\ e \notin C.up THEN [C EXCEPT !.up = @ \cup {e}] ELSE C

\* lines 135-138: after repair_down(e) returned b, e is moved to repair-up
escalate(e, b, C) ==
    IF ~b /\ e \notin C.up THEN [C EXCEPT !.up = @ \cup {e}] ELSE C

\* check() with an init() that runs lines 404-420 on every invocation
CheckCall_reinit ==
    /\ pc = "idle"
    /\ UNCHANGED theories
    /\ result' = "none"
    /\ on_model_calls' = 0
    /\ mk_model_done' = {}
    /\ sat_true' = {}
    /\ round_end' = <<>>
    /\ late_nv' = FALSE
    /\ dequeued' = FALSE
    /\ taken' = NoneTaken
    /\ last_hook' = <<"none">>
    /\ IF FALSE
       THEN /\ Commit([Cur EXCEPT !.nc = FALSE])
            /\ pc' = "while"
            /\ UNCHANGED <<m_initialized, m_unit_literals, k>>
       ELSE /\ Commit([Cur EXCEPT !.nc = FALSE, !.B = register_atoms(1, Cur.B)])
            /\ m_initialized' = TRUE
            /\ m_unit_literals' = unit_literals(clauses)
            /\ pc' = "initialize"
            /\ k' = 1
    /\ UNCHANGED <<limit_ok, Relevance, propagated>>

\* check() is called: init(), lines 401-417
CheckCall ==
    /\ pc = "idle"
    /\ UNCHANGED theories
    /\ result' = "none"
    /\ on_model_calls' = 0
    /\ mk_model_done' = {}
    /\ sat_true' = {}
    /\ round_end' = <<>>
    /\ late_nv' = FALSE
    /\ dequeued' = FALSE
    /\ taken' = NoneTaken
    /\ last_hook' = <<"none">>
    /\ IF m_initialized
       THEN /\ Commit([Cur EXCEPT !.nc = FALSE])
            /\ pc' = "while"
            /\ UNCHANGED <<m_initialized, m_unit_literals, k>>
       ELSE /\ Commit([Cur EXCEPT !.nc = FALSE, !.B = register_atoms(1, Cur.B)])
            /\ m_initialized' = TRUE
            /\ m_unit_literals' = unit_literals(clauses)
            /\ pc' = "initialize"
            /\ k' = 1
    /\ UNCHANGED <<limit_ok, Relevance, propagated>>

\* init(), lines 418-420: p->initialize() of the k-th plugin
Initialize ==
    /\ pc = "initialize"
    /\ UNCHANGED theories
    /\ \E C \in Hook(Cur) : Commit(C)
    /\ last_hook' = <<"initialize", plugin_order[k]>>
    /\ IF k < NumPlugins THEN k' = k + 1 /\ pc' = pc ELSE k' = 0 /\ pc' = "while"
    /\ UNCHANGED <<limit_ok, m_initialized, m_unit_literals, Relevance, propagated,
                   result, Ghosts>>

\* line 83 holds: propagate_boolean_assignment starts with reinit_relevant
BeginRound ==
    /\ pc = "while"
    /\ UNCHANGED theories
    /\ loop_condition(clauses, true_vars, limit_ok)
    /\ \E o \in reinit_relevant(clauses, m_atoms, true_vars) :
          /\ m_relevant' = o[1]
          /\ m_root_literals' = o[2]
    /\ m_visited' = {}
    /\ pc' = "start_propagation"
    /\ k' = 1
    /\ sat_true' = {}
    /\ round_end' = <<>>
    /\ late_nv' = FALSE
    /\ dequeued' = FALSE
    /\ taken' = NoneTaken
    /\ last_op' = "none"
    /\ UNCHANGED hook_ops
    /\ last_hook' = <<"none">>
    /\ UNCHANGED <<Skeleton, Oracle, Registry, m_new_constraint, m_initialized,
                   m_unit_literals, Worklists, propagated, result,
                   on_model_calls, mk_model_done>>

\* line 83 fails: return l_undef, line 110
LoopExit ==
    /\ pc = "while"
    /\ UNCHANGED theories
    /\ ~loop_condition(clauses, true_vars, limit_ok)
    /\ Return(l_undef)
    /\ last_op' = "none"
    /\ UNCHANGED hook_ops
    /\ last_hook' = <<"none">>
    /\ UNCHANGED <<Skeleton, Oracle, Registry, m_new_constraint, m_initialized,
                   m_unit_literals, Worklists, Relevance, k, propagated, Ghosts>>

\* lines 116-118: p->start_propagation() of the k-th plugin
StartPropagation ==
    /\ pc = "start_propagation"
    /\ UNCHANGED theories
    /\ \E C \in Hook(Cur) : Commit(C)
    /\ last_hook' = <<"start_propagation", plugin_order[k]>>
    /\ IF k < NumPlugins THEN k' = k + 1 /\ pc' = pc
       ELSE k' = 1 /\ pc' = "propagate_literal"
    /\ UNCHANGED <<limit_ok, m_initialized, m_unit_literals, Relevance, propagated,
                   result, Ghosts>>

\* lines 120-121 and 187-197: propagate_literal of the k-th root literal
PropagateLiteral ==
    /\ pc = "propagate_literal"
    /\ UNCHANGED theories
    /\ k <= Len(m_root_literals)
    /\ LET lit == m_root_literals[k]
           a == atom_of(m_atoms, lit_var(lit))
       IN IF is_true(lit, true_vars) /\ a # 0 /\ owner(a) # null_family_id
          THEN /\ \E C \in Hook(Cur) : Commit(C)
               /\ last_hook' = <<"propagate_literal", lit>>
          ELSE /\ Commit(Cur)
               /\ last_hook' = <<"none">>
    /\ k' = k + 1
    /\ UNCHANGED <<limit_ok, m_initialized, m_unit_literals, Relevance, pc, propagated,
                   result, Ghosts>>

\* lines 123-124: after the root literals, return from the round on a new constraint
RootsDone ==
    /\ pc = "propagate_literal"
    /\ UNCHANGED theories
    /\ k > Len(m_root_literals)
    /\ pc' = IF m_new_constraint THEN "round_end" ELSE "repair"
    /\ k' = 0
    /\ last_op' = "none"
    /\ UNCHANGED hook_ops
    /\ last_hook' = <<"none">>
    /\ UNCHANGED <<Skeleton, Oracle, Registry, m_new_constraint, m_initialized,
                   m_unit_literals, Worklists, Relevance, propagated, result, Ghosts>>

\* line 127: the test of the outer repair loop
RepairHead ==
    /\ pc = "repair"
    /\ UNCHANGED theories
    /\ pc' = IF repair_condition(m_new_constraint, limit_ok, m_repair_down, m_repair_up)
             THEN "repair_down" ELSE "repair_literals"
    /\ last_op' = "none"
    /\ UNCHANGED hook_ops
    /\ last_hook' = <<"none">>
    /\ UNCHANGED <<Skeleton, Oracle, Registry, m_new_constraint, m_initialized,
                   m_unit_literals, Worklists, Relevance, k, propagated, result, Ghosts>>

\* lines 128-140: one iteration of the repair-down loop.  erase_min takes the
\* minimum of a priority the plugins define: any element.
RepairDownStep ==
    /\ pc = "repair_down"
    /\ UNCHANGED theories
    /\ drain_condition(m_new_constraint, limit_ok, m_repair_down)
    /\ \E id \in m_repair_down :
         LET C0 == [Cur EXCEPT !.down = @ \ {id}]
             e == term(id, C0.B)
         IN IF e # 0 /\ is_app(e) /\ owner(e) # null_family_id
            THEN \E C1 \in RepairDownHook(e, C0), b \in BOOLEAN :
                    /\ Commit(escalate(e, b, C1))
                    /\ last_hook' = <<"repair_down", e, b, C1.up>>
                    /\ taken' = take("down", id, C1.op)
            ELSE /\ Commit(C0)
                 /\ last_hook' = <<"none">>
                 /\ taken' = take("down", id, "none")
    /\ dequeued' = TRUE
    /\ UNCHANGED <<limit_ok, m_initialized, m_unit_literals, Relevance, pc, k, propagated,
                   result, on_model_calls, mk_model_done, sat_true, round_end, late_nv>>

\* line 128 fails: on to the repair-up loop
RepairDownExit ==
    /\ pc = "repair_down"
    /\ UNCHANGED theories
    /\ ~drain_condition(m_new_constraint, limit_ok, m_repair_down)
    /\ pc' = "repair_up"
    /\ last_op' = "none"
    /\ UNCHANGED hook_ops
    /\ last_hook' = <<"none">>
    /\ UNCHANGED <<Skeleton, Oracle, Registry, m_new_constraint, m_initialized,
                   m_unit_literals, Worklists, Relevance, k, propagated, result, Ghosts>>

\* lines 141-151: one iteration of the repair-up loop
RepairUpStep ==
    /\ pc = "repair_up"
    /\ UNCHANGED theories
    /\ drain_condition(m_new_constraint, limit_ok, m_repair_up)
    /\ \E id \in m_repair_up :
         LET C0 == [Cur EXCEPT !.up = @ \ {id}]
             e == term(id, C0.B)
         IN IF e # 0 /\ is_app(e) /\ owner(e) # null_family_id
            THEN /\ \E C1 \in Hook(C0) : Commit(C1) /\ taken' = take("up", id, C1.op)
                 /\ last_hook' = <<"repair_up", e>>
            ELSE /\ Commit(C0)
                 /\ last_hook' = <<"none">>
                 /\ taken' = take("up", id, "none")
    /\ dequeued' = TRUE
    /\ UNCHANGED <<limit_ok, m_initialized, m_unit_literals, Relevance, pc, k, propagated,
                   result, on_model_calls, mk_model_done, sat_true, round_end, late_nv>>

\* line 141 fails: back to the test of the outer loop
RepairUpExit ==
    /\ pc = "repair_up"
    /\ UNCHANGED theories
    /\ ~drain_condition(m_new_constraint, limit_ok, m_repair_up)
    /\ pc' = "repair"
    /\ last_op' = "none"
    /\ UNCHANGED hook_ops
    /\ last_hook' = <<"none">>
    /\ UNCHANGED <<Skeleton, Oracle, Registry, m_new_constraint, m_initialized,
                   m_unit_literals, Worklists, Relevance, k, propagated, result, Ghosts>>

\* context::repair_literals, lines 167-175: the Boolean variable v = k
RepairLiteral ==
    /\ pc = "repair_literals"
    /\ UNCHANGED theories
    /\ k < num_vars /\ ~m_new_constraint
    /\ LET a == atom_of(m_atoms, k)
           lit == literal(k, ~(k \in true_vars))
       IN IF a # 0 /\ owner(a) # null_family_id
          THEN /\ \E C \in Hook(Cur) :
                    /\ Commit(C)
                    /\ late_nv' = (late_nv \/ C.op = "new_value_eh")
               /\ last_hook' = <<"repair_literal", lit, is_true(lit, true_vars)>>
          ELSE /\ Commit(Cur)
               /\ UNCHANGED late_nv
               /\ last_hook' = <<"none">>
    /\ k' = k + 1
    /\ taken' = NoneTaken
    /\ UNCHANGED <<limit_ok, m_initialized, m_unit_literals, Relevance, pc, propagated,
                   result, on_model_calls, mk_model_done, sat_true, round_end, dequeued>>

\* after repair_literals the round goes back to the repair loop
RepairLiteralsDone_repeat ==
    /\ pc = "repair_literals"
    /\ UNCHANGED theories
    /\ ~(k < num_vars /\ ~m_new_constraint)
    /\ pc' = "repair"
    /\ propagated' = TRUE
    /\ k' = 0
    /\ last_op' = "none"
    /\ UNCHANGED hook_ops
    /\ last_hook' = <<"none">>
    /\ taken' = NoneTaken
    /\ UNCHANGED <<Skeleton, Oracle, Registry, m_new_constraint, m_initialized,
                   m_unit_literals, Worklists, Relevance, result,
                   on_model_calls, mk_model_done, sat_true, round_end, late_nv, dequeued>>

\* line 167 fails: the final checks start with propagated = true, line 157
RepairLiteralsDone ==
    /\ pc = "repair_literals"
    /\ UNCHANGED theories
    /\ ~(k < num_vars /\ ~m_new_constraint)
    /\ pc' = "final_check"
    /\ propagated' = TRUE
    /\ k' = 0
    /\ last_op' = "none"
    /\ UNCHANGED hook_ops
    /\ last_hook' = <<"none">>
    /\ taken' = NoneTaken
    /\ UNCHANGED <<Skeleton, Oracle, Registry, m_new_constraint, m_initialized,
                   m_unit_literals, Worklists, Relevance, result,
                   on_model_calls, mk_model_done, sat_true, round_end, late_nv, dequeued>>

\* line 158: the test of the final-check loop
FinalCheckHead ==
    /\ pc = "final_check"
    /\ UNCHANGED theories
    /\ IF propagated /\ ~m_new_constraint
       THEN pc' = "propagate" /\ propagated' = FALSE /\ k' = 1
       ELSE pc' = "round_end" /\ UNCHANGED <<propagated, k>>
    /\ last_op' = "none"
    /\ UNCHANGED hook_ops
    /\ last_hook' = <<"none">>
    /\ UNCHANGED <<Skeleton, Oracle, Registry, m_new_constraint, m_initialized,
                   m_unit_literals, Worklists, Relevance, result, Ghosts>>

\* line 161: propagated |= p && !m_new_constraint && p->propagate(), k-th plugin
Propagate ==
    /\ pc = "propagate"
    /\ UNCHANGED theories
    /\ IF ~m_new_constraint
       THEN \E C \in Hook(Cur), b \in BOOLEAN :
               /\ Commit(C)
               /\ propagated' = (propagated \/ b)
               /\ late_nv' = (late_nv \/ C.op = "new_value_eh")
               /\ last_hook' = <<"propagate", plugin_order[k], b>>
       ELSE /\ Commit(Cur)
            /\ UNCHANGED <<propagated, late_nv>>
            /\ last_hook' = <<"none">>
    /\ IF k < NumPlugins THEN k' = k + 1 /\ pc' = pc ELSE k' = 0 /\ pc' = "final_check"
    /\ UNCHANGED <<limit_ok, m_initialized, m_unit_literals, Relevance, result,
                   on_model_calls, mk_model_done, sat_true, round_end, dequeued, taken>>

\* line 93, a round has ended: return l_undef, or go on to ask the plugins
RoundEnd ==
    /\ pc = "round_end"
    /\ UNCHANGED theories
    /\ round_end' = <<m_new_constraint, unsat(clauses, true_vars) = {}, limit_ok>>
    /\ IF round_failed(m_new_constraint, clauses, true_vars)
       THEN Return(l_undef) /\ k' = 0
       ELSE pc' = "is_sat" /\ k' = 1 /\ UNCHANGED result
    /\ last_op' = "none"
    /\ UNCHANGED hook_ops
    /\ last_hook' = <<"none">>
    /\ UNCHANGED <<Skeleton, Oracle, Registry, m_new_constraint, m_initialized,
                   m_unit_literals, Worklists, Relevance, propagated,
                   on_model_calls, mk_model_done, sat_true, late_nv, dequeued, taken>>

\* line 96: p->is_sat() of the k-th plugin; all_of stops at the first false.
\* After the last true the model is started from subterms(), lines 97-100.
IsSat ==
    /\ pc = "is_sat"
    /\ UNCHANGED theories
    /\ \E C \in Hook(Cur), b \in BOOLEAN :
          /\ last_hook' = <<"is_sat", plugin_order[k], b>>
          /\ IF ~b
             THEN Commit(C) /\ pc' = "while" /\ k' = 0 /\ UNCHANGED sat_true
             ELSE /\ sat_true' = sat_true \cup {plugin_order[k]}
                  /\ IF k < NumPlugins
                     THEN Commit(C) /\ k' = k + 1 /\ pc' = pc
                     ELSE /\ Commit([C EXCEPT !.B.subterms = subterms(C.B)])
                          /\ k' = 1
                          /\ pc' = "mk_model"
    /\ UNCHANGED <<limit_ok, m_initialized, m_unit_literals, Relevance, propagated, result,
                   on_model_calls, mk_model_done, round_end, late_nv, dequeued, taken>>

\* lines 101-103 leaving the loop after the first plugin
MkModel_first_only ==
    /\ pc = "mk_model"
    /\ UNCHANGED theories
    /\ \E C \in Hook(Cur) : Commit(C)
    /\ mk_model_done' = mk_model_done \cup {plugin_order[k]}
    /\ last_hook' = <<"mk_model", plugin_order[k]>>
    /\ k' = 0
    /\ pc' = "on_model"
    /\ UNCHANGED <<limit_ok, m_initialized, m_unit_literals, Relevance, propagated, result,
                   on_model_calls, sat_true, round_end, late_nv, dequeued, taken>>

\* lines 101-103: p->mk_model(*mdl) of the k-th plugin
MkModel ==
    /\ pc = "mk_model"
    /\ UNCHANGED theories
    /\ \E C \in Hook(Cur) : Commit(C)
    /\ mk_model_done' = mk_model_done \cup {plugin_order[k]}
    /\ last_hook' = <<"mk_model", plugin_order[k]>>
    /\ IF k < NumPlugins THEN k' = k + 1 /\ pc' = pc ELSE k' = 0 /\ pc' = "on_model"
    /\ UNCHANGED <<limit_ok, m_initialized, m_unit_literals, Relevance, propagated, result,
                   on_model_calls, sat_true, round_end, late_nv, dequeued, taken>>

\* lines 104-107: s.on_model(mdl); return l_true
OnModel ==
    /\ pc = "on_model"
    /\ UNCHANGED theories
    /\ on_model_calls' = on_model(on_model_calls)
    /\ Return(l_true)
    /\ last_op' = "none"
    /\ UNCHANGED hook_ops
    /\ last_hook' = <<"on_model">>
    /\ UNCHANGED <<Skeleton, Oracle, Registry, m_new_constraint, m_initialized,
                   m_unit_literals, Worklists, Relevance, k, propagated,
                   mk_model_done, sat_true, round_end, late_nv, dequeued, taken>>

Next ==
    \/ AssertFormula
    \/ OracleFlip
    \/ LimitExpires
    \/ LimitReset
    \/ CheckCall
    \/ Initialize
    \/ BeginRound
    \/ LoopExit
    \/ StartPropagation
    \/ PropagateLiteral
    \/ RootsDone
    \/ RepairHead
    \/ RepairDownStep
    \/ RepairDownExit
    \/ RepairUpStep
    \/ RepairUpExit
    \/ RepairLiteral
    \/ RepairLiteralsDone
    \/ FinalCheckHead
    \/ Propagate
    \/ RoundEnd
    \/ IsSat
    \/ MkModel
    \/ OnModel

Spec == Init /\ [][Next]_vars

(***************************************************************************)
(* Properties of check() and of the round.                                 *)
(***************************************************************************)
InRound ==
    pc \in {"start_propagation", "propagate_literal", "repair", "repair_down", "repair_up",
            "repair_literals", "final_check", "propagate", "round_end"}

\* C1: check() returns only l_true or l_undef, never l_false.
C1_CheckNeverFalse == result \in {"none", l_true, l_undef}

C1_Witness == pc = "idle" /\ result = l_undef /\ m_initialized

\* C2: check() returns l_true only at the end of a round in which the new-constraint
\* flag was false, unsat() was empty and every plugin's is_sat() returned true; a
\* plugin that reports is_sat() = false sends check() to the next round.
C2_TrueOnlyOnAgreement ==
    /\ result = l_true =>
         /\ round_end[1] = FALSE
         /\ round_end[2] = TRUE
         /\ sat_true = Plugins
    /\ (last_hook[1] = "is_sat" /\ last_hook[3] = FALSE) => (pc = "while" /\ result = "none")

C2_Witness ==
    /\ pc = "idle" /\ result = l_true
    /\ round_end[1] = FALSE /\ round_end[2] = TRUE /\ sat_true = Plugins

\* C3: once every plugin's is_sat() has returned true in a round, check() goes on to
\* build the model and returns l_true with on_model invoked exactly once.
C3_TerminationOnAgreement ==
    sat_true = Plugins =>
        \/ pc \in {"mk_model", "on_model"} /\ result = "none" /\ on_model_calls = 0
        \/ pc = "idle" /\ result = l_true /\ on_model_calls = 1

C3_Witness ==
    /\ pc = "idle" /\ result = l_true /\ sat_true = Plugins /\ on_model_calls = 1
    /\ m_repair_down = {} /\ m_repair_up = {} /\ dequeued

\* C4: on_model is invoked exactly once in a check() that returns l_true, after the
\* mk_model of every plugin, and never in a check() that returns l_undef.
C4_OnModelOnce ==
    /\ on_model_calls <= 1
    /\ result = l_true => (on_model_calls = 1 /\ mk_model_done = Plugins)
    /\ result = l_undef => on_model_calls = 0
    /\ on_model_calls = 1 => (mk_model_done = Plugins /\ result = l_true)
    /\ pc = "on_model" => mk_model_done = Plugins

C4_Witness ==
    /\ last_hook = <<"on_model">> /\ result = l_true
    /\ on_model_calls = 1 /\ mk_model_done = Plugins

\* C5: when the new-constraint flag is up during a round, the flag stays up, the round
\* is not followed by another one, no is_sat() is asked and on_model is not invoked:
\* the only way out of the round is the return of l_undef.
C5_NewConstraintAborts ==
    [][(InRound /\ m_new_constraint) =>
          /\ m_new_constraint'
          /\ InRound' \/ (pc' = "idle" /\ result' = l_undef)
          /\ pc' = "start_propagation" => pc = "start_propagation"
          /\ last_hook'[1] # "is_sat"
          /\ on_model_calls' = on_model_calls]_vars

C5_Witness ==
    /\ pc = "idle" /\ result = l_undef /\ m_new_constraint
    /\ round_end # <<>>
    /\ round_end[1] = TRUE /\ round_end[2] = TRUE /\ round_end[3] = TRUE

\* C6: a check() call during which the resource limit expired before the end of a
\* round does not return l_true and commits no model through on_model.
C6_LimitMeansUndef ==
    (round_end # <<>> /\ round_end[3] = FALSE) => (result # l_true /\ on_model_calls = 0)

\* C7, as claimed: whenever propagate_boolean_assignment returns with the
\* new-constraint flag false, both repair sets are empty.
C7_FixpointAtReturn ==
    (pc = "round_end" /\ ~m_new_constraint) => (m_repair_down = {} /\ m_repair_up = {})

\* C7, amended: whenever propagate_boolean_assignment returns with the new-constraint
\* flag false, the resource limit not expired and no hook of LITERAL_REPAIR or
\* FINAL_CHECK having called new_value_eh in the round, both repair sets are empty.
C7_FixpointAfterDrain ==
    (pc = "round_end" /\ ~m_new_constraint /\ limit_ok /\ ~late_nv) =>
        (m_repair_down = {} /\ m_repair_up = {})

C7_Witness ==
    /\ pc = "round_end" /\ ~m_new_constraint /\ limit_ok /\ ~late_nv /\ dequeued
    /\ m_repair_down = {} /\ m_repair_up = {}

C9_MonotonicStrengthening ==
    [][/\ last_op' = "add_constraint" =>
            (Len(clauses') > Len(clauses) /\ m_new_constraint')
       /\ (m_new_constraint /\ ~m_new_constraint') => (pc = "idle" /\ pc' # "idle")]_vars

MaxBridgeCalls == 2

\* the terms of sort Bool
BoolTerms == {e \in TermIds : is_bool(e)}

\* the arguments of the mk_literal calls: atoms, negations, every connective
\* (with 0, 2 and 3 arguments), a quantifier, a repeated argument
MkLiteralTerms == {3, 4, 5, 6, 7, 11, 12, 13, 15, 16, 17, 18, 19, 21, 22}

\* the arguments of the add_clause calls: every shape of lines 259-311
AddClauseFormulas == {3, 6, 8, 9, 12, 13, 14, 19, 23, 24, 25}

\* the roots of the register_terms calls: Boolean and non-Boolean, constant and
\* application, nested, a repeated argument, a connective over atoms
RegisterRoots == {3, 4, 8, 10, 11, 21}

\* sat::literal lit = ctx.mk_literal(e), with the result r of the call
mk_literal_return(e, r) ==
    /\ Commit([Cur EXCEPT !.B = r.B, !.op = "mk_literal", !.ops = @ + 1])
    /\ last_hook' = <<"mk_literal", e, r.lit, num_vars, Len(clauses)>>

\* a caller calls context::mk_literal
CallMkLiteral ==
    /\ pc = "idle"
    /\ UNCHANGED theories
    /\ hook_ops < MaxBridgeCalls
    /\ \E e \in MkLiteralTerms : mk_literal_return(e, mk_literal(e, Cur.B))
    /\ UNCHANGED <<limit_ok, m_initialized, m_unit_literals, Relevance, pc, k, propagated,
                   result, Ghosts>>

\* add_clause(f) returns to its caller
add_clause_return(f, C) ==
    /\ Commit([C EXCEPT !.ops = @ + 1])
    /\ last_hook' = <<"add_clause", f, num_vars, Len(clauses),
                      m_atom2bool_var[strip_not(f, FALSE)[1]]>>

\* a caller calls context::add_clause on a term
CallAddClause ==
    /\ pc = "idle"
    /\ UNCHANGED theories
    /\ hook_ops < MaxBridgeCalls
    /\ \E f \in AddClauseFormulas : add_clause_return(f, add_clause_formula(f, Cur))
    /\ UNCHANGED <<limit_ok, m_initialized, m_unit_literals, Relevance, pc, k, propagated,
                   result, Ghosts>>

\* a caller calls context::register_terms
CallRegisterTerms ==
    /\ pc = "idle"
    /\ UNCHANGED theories
    /\ hook_ops < MaxBridgeCalls
    /\ \E e \in RegisterRoots :
          /\ Commit([Cur EXCEPT !.B = register_terms(e, Cur.B),
                                !.op = "register_terms", !.ops = @ + 1])
          /\ last_hook' = <<"register_terms", e>>
    /\ UNCHANGED <<limit_ok, m_initialized, m_unit_literals, Relevance, pc, k, propagated,
                   result, Ghosts>>

\* context::init, lines 401-417, with plugins whose initialize() does nothing
CallInit ==
    /\ pc = "idle"
    /\ UNCHANGED theories
    /\ ~m_initialized
    /\ Commit([Cur EXCEPT !.nc = FALSE, !.B = register_atoms(1, Cur.B), !.op = "init"])
    /\ m_initialized' = TRUE
    /\ m_unit_literals' = unit_literals(clauses)
    /\ last_hook' = <<"init">>
    /\ UNCHANGED <<limit_ok, Relevance, pc, k, propagated, result, Ghosts>>

NextRegistry ==
    \/ CallMkLiteral
    \/ CallAddClause
    \/ CallRegisterTerms
    \/ CallInit

RegistrySpec == Init /\ [][NextRegistry]_vars

(***************************************************************************)
(* Properties of mk_literal, add_clause and register_terms.                *)
(***************************************************************************)
\* the atom of a Boolean term: the term under its negations
atom_under(t) == strip_not(t, FALSE)[1]

\* an odd number of negations
negated(t) == strip_not(t, FALSE)[2]

\* C11: after mk_literal(e), a call mk_literal(t) on a term t with the atom of e
\* (under any number of negations) returns the variable of the first call with the
\* polarity of t's negations and leaves the skeleton and the registry as they are.
C11_IdempotentAtom ==
    last_hook[1] = "mk_literal" =>
        /\ lit_sign(last_hook[3]) = negated(last_hook[2])
        /\ \A t \in BoolTerms :
              atom_under(t) = atom_under(last_hook[2]) =>
                 mk_literal(t, Cur.B) =
                    [B |-> Cur.B, lit |-> literal(lit_var(last_hook[3]), negated(t))]

\* mk_literal(not p) after p has its atom: variable 0, negated, nothing allocated
C11_Witness == last_hook = <<"mk_literal", 5, 1, 1, 0>> /\ num_vars = 1 /\ clauses = <<>>

\* C12: every plugin's register_term hook is called at most once per term, and
\* exactly once for a registered term.
C12_RegisteredOnce ==
    \A e \in TermIds : nreg[e] <= 1 /\ (e \in m_allterms => nreg[e] = 1)

\* C19: m_parents[c] lists every registered term that has c as a direct argument
\* exactly once, and no other term.
C19_ParentMapExact ==
    \A c \in TermIds :
        /\ \A i, j \in 1..Len(m_parents[c]) : i # j => m_parents[c][i] # m_parents[c][j]
        /\ {m_parents[c][i] : i \in 1..Len(m_parents[c])} =
              {t \in m_allterms : \E i \in 1..get_num_args(t) : get_args(t)[i] = c}

\* C20: every call of the register_term hooks for an application comes after such
\* a call for each of its direct arguments, and a registered term has all its
\* direct arguments registered.
C20_DependencyOrder ==
    /\ \A i \in 1..Len(reg_log) :
          \A a \in 1..get_num_args(reg_log[i]) :
             \E j \in 1..(i - 1) : reg_log[j] = get_args(reg_log[i])[a]
    /\ \A e \in m_allterms :
          /\ \E i \in 1..Len(reg_log) : reg_log[i] = e
          /\ \A a \in 1..get_num_args(e) : get_args(e)[a] \in m_allterms

\* x + y = x is registered after x + y, which is registered after x and y
C20_Witness ==
    /\ 11 \in m_allterms
    /\ \E i, j, n \in 1..Len(reg_log) :
          i < j /\ j < n /\ reg_log[i] = 1 /\ reg_log[j] = 10 /\ reg_log[n] = 11

\* the Boolean connectives that mk_literal defines by clauses
is_connective(e) ==
    \/ is_true_term(e) \/ is_false_term(e) \/ is_and(e) \/ is_or(e)
    \/ is_iff(e) \/ is_xor(e) \/ is_ite(e)

\* the literal that mk_literal returns for argument i of e once it has its atom
arg_lit(e, i) ==
    literal(m_atom2bool_var[atom_under(get_args(e)[i])], negated(get_args(e)[i]))

\* the truth value of the connective e under tv, from its arguments' literals
connective_value(e, tv) ==
    IF is_true_term(e) THEN TRUE
    ELSE IF is_false_term(e) THEN FALSE
    ELSE IF is_and(e) THEN \A i \in 1..get_num_args(e) : is_true(arg_lit(e, i), tv)
    ELSE IF is_or(e) THEN \E i \in 1..get_num_args(e) : is_true(arg_lit(e, i), tv)
    ELSE IF is_iff(e) THEN is_true(arg_lit(e, 1), tv) = is_true(arg_lit(e, 2), tv)
    ELSE IF is_xor(e) THEN is_true(arg_lit(e, 1), tv) # is_true(arg_lit(e, 2), tv)
    ELSE IF is_true(arg_lit(e, 1), tv) THEN is_true(arg_lit(e, 2), tv)
         ELSE is_true(arg_lit(e, 3), tv)

\* the connectives that got their variable since the skeleton had nv0 variables
fresh_connectives(nv0) ==
    {a \in TermIds : is_connective(a) /\ m_atom2bool_var[a] # null_bool_var
                        /\ m_atom2bool_var[a] >= nv0}

\* the variables of the clauses added since the skeleton had nc0 clauses
new_clause_vars(nc0) ==
    UNION {{lit_var(clauses[i][j]) : j \in 1..Len(clauses[i])} : i \in (nc0 + 1)..Len(clauses)}

\* the clauses added since the skeleton had nc0 clauses are all true under tv
new_clauses_hold(nc0, tv) ==
    \A i \in (nc0 + 1)..Len(clauses) : \E j \in 1..Len(clauses[i]) : is_true(clauses[i][j], tv)

lit_value(t, tv) == is_true(literal(m_atom2bool_var[atom_under(t)], negated(t)), tv)

\* the truth value under tv of the formula "not f" when sign and of "f" otherwise,
\* where the arguments of a disjunction, an equivalence and an if-then-else are
\* read off their literals
RECURSIVE formula_value(_, _, _)
formula_value(f, sign, tv) ==
    IF is_not(f) THEN formula_value(get_args(f)[1], ~sign, tv)
    ELSE IF ~sign /\ is_and(f)
         THEN \A i \in 1..get_num_args(f) : formula_value(get_args(f)[i], FALSE, tv)
    ELSE IF sign /\ is_or(f)
         THEN \A i \in 1..get_num_args(f) : formula_value(get_args(f)[i], TRUE, tv)
    ELSE IF is_or(f) THEN \E i \in 1..get_num_args(f) : lit_value(get_args(f)[i], tv)
    ELSE IF is_and(f) THEN \E i \in 1..get_num_args(f) : ~lit_value(get_args(f)[i], tv)
    ELSE IF is_iff(f)
         THEN (lit_value(get_args(f)[1], tv) = lit_value(get_args(f)[2], tv)) # sign
    ELSE IF is_ite(f)
         THEN (IF lit_value(get_args(f)[1], tv) THEN lit_value(get_args(f)[2], tv)
               ELSE lit_value(get_args(f)[3], tv)) # sign
    ELSE lit_value(f, tv) # sign

\* C18: the clauses that add_clause(f) adds are satisfied by exactly the assignments
\* under which f is true and every connective that got a variable in the call has
\* the value of its definition; an equivalence or if-then-else at the top of f gets
\* no variable of its own.
C18_AddClauseCnf ==
    last_hook[1] = "add_clause" =>
        /\ \A tv \in SUBSET new_clause_vars(last_hook[4]) :
              new_clauses_hold(last_hook[4], tv) <=>
                 /\ formula_value(last_hook[2], FALSE, tv)
                 /\ \A a \in fresh_connectives(last_hook[3]) :
                       (m_atom2bool_var[a] \in tv) <=> connective_value(a, tv)
        /\ is_iff(atom_under(last_hook[2])) \/ is_ite(atom_under(last_hook[2])) =>
              m_atom2bool_var[atom_under(last_hook[2])] = last_hook[5]

\* add_clause of the negated if-then-else: two clauses over three fresh atoms, and
\* the if-then-else has no variable
C18_Witness ==
    /\ last_hook[1] = "add_clause" /\ last_hook[2] = 25
    /\ Len(clauses) = last_hook[4] + 2
    /\ num_vars = last_hook[3] + 3
    /\ m_atom2bool_var[13] = null_bool_var

(***************************************************************************)
(* context::is_relevant, lines 231-247, on the record R of m_relevant,     *)
(* m_visited and m_parents; R.res is the value returned.                   *)
(***************************************************************************)
RECURSIVE is_relevant(_, _), any_parent_relevant(_, _, _)

\* a term with a parent is relevant whatever is_relevant(p) returned
parent_result_ignored(e, i, Q) == [Q EXCEPT !.relevant = @ \cup {e}, !.res = TRUE]

\* lines 241-244 with the result Q of is_relevant(p) for the i-th parent p of e
parent_result(e, i, Q) ==
    IF Q.res THEN [Q EXCEPT !.relevant = @ \cup {e}]
    ELSE any_parent_relevant(e, i + 1, Q)

\* the loop over m_parents[id] from the i-th parent on
any_parent_relevant(e, i, R) ==
    IF i > Len(R.parents[e]) THEN [R EXCEPT !.res = FALSE]
    ELSE parent_result(e, i, is_relevant(R.parents[e][i], R))

\* is_relevant without m_visited.insert(id)
is_relevant_unvisited(e, R) ==
    IF e \in R.relevant THEN [R EXCEPT !.res = TRUE]
    ELSE IF e \in R.visited THEN [R EXCEPT !.res = FALSE]
    ELSE any_parent_relevant(e, 1, R)

is_relevant(e, R) ==
    IF e \in R.relevant THEN [R EXCEPT !.res = TRUE]
    ELSE IF e \in R.visited THEN [R EXCEPT !.res = FALSE]
    ELSE any_parent_relevant(e, 1, [R EXCEPT !.visited = @ \cup {e}])

\* the relevance state of the context
CurRelevance ==
    [relevant |-> m_relevant, visited |-> m_visited, parents |-> m_parents, res |-> FALSE]

\* the caller of is_relevant(e) gets R.res; the sets are those the call left
is_relevant_return(e, R) ==
    /\ m_relevant' = R.relevant
    /\ m_visited' = R.visited
    /\ last_hook' = <<"is_relevant", e, R.res>>

\* line 114: propagate_boolean_assignment starts a round with reinit_relevant;
\* check() calls it after init() and when no clause is false (line 83)
ReinitRelevant ==
    /\ pc = "idle"
    /\ UNCHANGED theories
    /\ m_initialized
    /\ unsat(clauses, true_vars) = {}
    /\ \E o \in reinit_relevant(clauses, m_atoms, true_vars) :
          /\ m_relevant' = o[1]
          /\ m_root_literals' = o[2]
    /\ m_visited' = {}
    /\ last_op' = "reinit_relevant"
    /\ last_hook' = <<"reinit_relevant">>
    /\ UNCHANGED <<Skeleton, Oracle, Registry, m_new_constraint, m_initialized,
                   m_unit_literals, Worklists, hook_ops, pc, k, propagated, result, Ghosts>>

\* a plugin calls ctx.is_relevant(e) on a registered term
QueryRelevant ==
    /\ pc = "idle"
    /\ UNCHANGED theories
    /\ hook_ops < MaxBridgeCalls
    /\ \E e \in m_allterms : is_relevant_return(e, is_relevant(e, CurRelevance))
    /\ m_root_literals' = m_root_literals
    /\ last_op' = "is_relevant"
    /\ hook_ops' = hook_ops + 1
    /\ UNCHANGED <<Skeleton, Oracle, Registry, m_new_constraint, m_initialized,
                   m_unit_literals, Worklists, pc, k, propagated, result, Ghosts>>

\* the formulas asserted in the relevance runs: a disjunction of two atoms and the
\* negation of the first of them
RelevanceFormulas == {8, 5}

\* the terms a plugin asks a literal for: an if-then-else over three atoms
RelevanceAtoms == {13}

\* the solver asserts a formula: add_clause on a term
AssertRelevanceFormula ==
    /\ pc = "idle"
    /\ UNCHANGED theories
    /\ hook_ops < MaxBridgeCalls
    /\ \E f \in RelevanceFormulas : add_clause_return(f, add_clause_formula(f, Cur))
    /\ UNCHANGED <<limit_ok, m_initialized, m_unit_literals, Relevance, pc, k, propagated,
                   result, Ghosts>>

\* a plugin calls ctx.mk_literal
PluginMkLiteral ==
    /\ pc = "idle"
    /\ UNCHANGED theories
    /\ hook_ops < MaxBridgeCalls
    /\ \E e \in RelevanceAtoms : mk_literal_return(e, mk_literal(e, Cur.B))
    /\ UNCHANGED <<limit_ok, m_initialized, m_unit_literals, Relevance, pc, k, propagated,
                   result, Ghosts>>

NextRelevance ==
    \/ PluginMkLiteral
    \/ AssertRelevanceFormula
    \/ CallInit
    \/ OracleFlip
    \/ ReinitRelevant
    \/ QueryRelevant

RelevanceSpec == Init /\ [][NextRelevance]_vars

(***************************************************************************)
(* Properties of reinit_relevant and is_relevant.                          *)
(***************************************************************************)
\* the atoms of the root literals of the round
RootAtoms == {atom_of(m_atoms, lit_var(m_root_literals[i])) : i \in 1..Len(m_root_literals)}

\* the terms with a chain of parents that ends in a term of S
RECURSIVE below(_)
below(S) ==
    IF \A c \in TermIds : (\E i \in 1..Len(m_parents[c]) : m_parents[c][i] \in S) => c \in S
    THEN S
    ELSE below(S \cup {c \in TermIds : \E i \in 1..Len(m_parents[c]) : m_parents[c][i] \in S})

\* the terms reachable from a term of S through direct containment
RECURSIVE contained(_)
contained(S) ==
    IF \A t \in S : \A i \in 1..get_num_args(t) : get_args(t)[i] \in S
    THEN S
    ELSE contained(S \cup UNION {{get_args(t)[i] : i \in 1..get_num_args(t)} : t \in S})

\* C13: a term that is_relevant reports relevant, and every term of m_relevant, has
\* a chain of parents that ends in the atom of a root literal of the round.
C13_RelevanceSound ==
    /\ m_relevant \subseteq below(RootAtoms)
    /\ last_hook[1] = "is_relevant" /\ last_hook[3] => last_hook[2] \in below(RootAtoms)

\* is_relevant(x) returned true through the parent x <= y of x
C13_Witness ==
    /\ last_hook = <<"is_relevant", 1, TRUE>>
    /\ 1 \notin RootAtoms
    /\ 3 \in RootAtoms

\* C14: is_relevant reports every term relevant that is reachable through direct
\* containment from the atom of a root literal of the round.
C14_RelevanceComplete ==
    last_hook[1] = "is_relevant" /\ last_hook[2] \in contained(RootAtoms) => last_hook[3]

\* C15 as stated: a true literal b with an atom is a root literal of the round when
\* every other such literal of its clause was relevant before the clause was
\* scanned, being the only such literal of an earlier clause.
C15_SoleCandidateSelected ==
    last_hook[1] = "reinit_relevant" =>
        \A i \in 1..Len(clauses) :
           \A b \in live_literals(clauses[i], m_atoms, true_vars) :
              (\A a \in live_literals(clauses[i], m_atoms, true_vars) \ {b} :
                  \E j \in 1..(i - 1) : live_literals(clauses[j], m_atoms, true_vars) = {a})
              => \E n \in 1..Len(m_root_literals) : m_root_literals[n] = b

\* C15: after reinit_relevant, the literal of a clause that is its only true literal
\* with an atom is a root literal, whatever the random generator returned.
C15_OnlyLiveLiteralSelected ==
    last_hook[1] = "reinit_relevant" =>
        \A i \in 1..Len(clauses) :
           \A b \in live_literals(clauses[i], m_atoms, true_vars) :
              live_literals(clauses[i], m_atoms, true_vars) = {b}
              => \E n \in 1..Len(m_root_literals) : m_root_literals[n] = b

\* the clause p or x <= y with p false and x <= y true: x <= y is the root literal
C15_Witness ==
    /\ last_hook[1] = "reinit_relevant"
    /\ \E i \in 1..Len(clauses) :
          /\ Len(clauses[i]) = 2
          /\ live_literals(clauses[i], m_atoms, true_vars) = {clauses[i][2]}
          /\ m_root_literals = <<clauses[i][2]>>

\* C16 as stated: the relevant set is a subset of the visited set.
C16_RelevantVisited == m_relevant \subseteq m_visited

\* C16: every relevant term is visited or is the atom of a root literal.
C16_RelevantVisitedOrRoot == m_relevant \subseteq m_visited \cup RootAtoms

\* x became relevant in an is_relevant call and is not a root atom
C16_Witness ==
    /\ last_hook[1] = "is_relevant"
    /\ 1 \in m_relevant /\ 1 \in m_visited /\ 1 \notin RootAtoms

\* the ways to name, for each root literal, a clause of its own that holds it
root_clauses ==
    {f \in [1..Len(m_root_literals) -> 1..Len(clauses)] :
        /\ \A a, b \in 1..Len(m_root_literals) : a # b => f[a] # f[b]
        /\ \A a \in 1..Len(m_root_literals) : m_root_literals[a] \in Range(clauses[f[a]])}

\* C31: after reinit_relevant every root literal was added for a clause of its
\* own that holds it, every root literal is true, and every clause with a true
\* literal that has an atom has such a literal whose atom is relevant.
C31_RootPerClause ==
    last_hook[1] = "reinit_relevant" =>
        /\ root_clauses # {}
        /\ \A n \in 1..Len(m_root_literals) : is_true(m_root_literals[n], true_vars)
        /\ \A i \in 1..Len(clauses) :
              live_literals(clauses[i], m_atoms, true_vars) # {} =>
                 \E l \in live_literals(clauses[i], m_atoms, true_vars) :
                    atom_of(m_atoms, lit_var(l)) \in m_relevant

\* the skeleton of p or x <= y and not p, with p false and x <= y true:
\* reinit_relevant made x <= y relevant
C31_Witness ==
    /\ last_hook[1] = "reinit_relevant"
    /\ Len(clauses) = 2
    /\ m_atom2bool_var[4] # null_bool_var /\ m_atom2bool_var[3] # null_bool_var
    /\ \E i, j \in 1..2 :
          /\ Range(clauses[i]) = {literal(m_atom2bool_var[4], FALSE), literal(m_atom2bool_var[3], FALSE)}
          /\ clauses[j] = <<literal(m_atom2bool_var[4], TRUE)>>
    /\ m_atom2bool_var[4] \notin true_vars
    /\ m_atom2bool_var[3] \in true_vars
    /\ 3 \in m_relevant
    /\ is_relevant(3, CurRelevance).res

\* context::is_unit(lit): lit is one of the unit literals that init() collected
is_unit(lit, units) == lit \in units

PeekTerms == {1, 2, 4}

\* the roots of the passes with reading hooks: the terms without a Boolean
\* subterm, whose pass makes no mk_literal call and so no nested register_terms
PeekRoots == {1, 2, 10}

\* the terms visited when the i-th hook call of the pass B0 -> B1 is made: the
\* hook is called before m_visited.mark, lines 452-453 and 463-464
visited_before(i, B0, B1) ==
    B0.allterms \cup {B1.log[j] : j \in (Len(B0.log) + 1)..(Len(B0.log) + i - 1)}

\* the hook calls of the pass B0 -> B1 that read ctx.subterms() and find a term
\* to list
reading_hooks(H, B0, B1) ==
    {i \in 1..(Len(B1.log) - Len(B0.log)) :
        B1.log[Len(B0.log) + i] \in H /\ visited_before(i, B0, B1) # {}}

\* the pass B0 -> B1 of register_terms with the hooks of the terms of H reading
\* ctx.subterms(): line 433 clears m_subterms when the pass starts, the first
\* read that finds a term fills it (lines 501-508) and every later read returns it
register_terms_peeking(H, B0, B1) ==
    IF reading_hooks(H, B0, B1) = {} THEN B1
    ELSE [B1 EXCEPT !.subterms =
            sort_by_depth(visited_before(
                CHOOSE i \in reading_hooks(H, B0, B1) :
                    \A j \in reading_hooks(H, B0, B1) : i <= j, B0, B1))]

\* a caller calls context::register_terms; the hooks of the terms of H read
\* ctx.subterms()
RegisterTermsPeeking ==
    /\ pc = "idle"
    /\ UNCHANGED theories
    /\ hook_ops < MaxBridgeCalls
    /\ \E e \in PeekRoots, H \in SUBSET PeekTerms :
          /\ Commit([Cur EXCEPT
                       !.B = register_terms_peeking(H, Cur.B, register_terms(e, Cur.B)),
                       !.op = "register_terms", !.ops = @ + 1])
          /\ last_hook' = <<"register_terms", e>>
    /\ UNCHANGED <<limit_ok, m_initialized, m_unit_literals, Relevance, pc, k, propagated,
                   result, Ghosts>>

\* a caller calls context::subterms(), lines 500-509
CallSubterms ==
    /\ pc = "idle"
    /\ UNCHANGED theories
    /\ hook_ops < MaxBridgeCalls
    /\ Commit([Cur EXCEPT !.B.subterms = subterms(Cur.B), !.op = "subterms", !.ops = @ + 1])
    /\ last_hook' = <<"subterms">>
    /\ UNCHANGED <<limit_ok, m_initialized, m_unit_literals, Relevance, pc, k, propagated,
                   result, Ghosts>>

NextSubterms ==
    \/ RegisterTermsPeeking
    \/ CallMkLiteral
    \/ CallSubterms

SubtermsSpec == Init /\ [][NextSubterms]_vars

\* C32: the list that subterms() returned holds every registered term exactly
\* once, in non-decreasing depth order.
C32_SubtermsComplete ==
    last_hook[1] = "subterms" =>
        /\ Range(m_subterms) = m_allterms
        /\ Len(m_subterms) = Cardinality(m_allterms)
        /\ \A i, j \in 1..Len(m_subterms) :
              i < j => get_depth(m_subterms[i]) <= get_depth(m_subterms[j])

(***************************************************************************)
(* check() on a skeleton of unit clauses over two arithmetic atoms, so     *)
(* that a round has two root literals with a plugin.                       *)
(***************************************************************************)
\* the asserted formulas: x <= y and x <= x
AtomFormulas == {3, 21}

\* the driver asserts an atom: add_clause on a term
AssertAtom ==
    /\ pc = "idle"
    /\ UNCHANGED theories
    /\ Len(clauses) < MaxClauses
    /\ \E f \in AtomFormulas : Commit(add_clause_formula(f, Cur))
    /\ last_hook' = <<"none">>
    /\ Forget
    /\ UNCHANGED <<limit_ok, m_initialized, m_unit_literals, Relevance, pc, k, propagated>>

NextRoots ==
    \/ AssertAtom
    \/ OracleFlip
    \/ LimitExpires
    \/ LimitReset
    \/ CheckCall
    \/ Initialize
    \/ BeginRound
    \/ LoopExit
    \/ StartPropagation
    \/ PropagateLiteral
    \/ RootsDone
    \/ RepairHead
    \/ RepairDownStep
    \/ RepairDownExit
    \/ RepairUpStep
    \/ RepairUpExit
    \/ RepairLiteral
    \/ RepairLiteralsDone
    \/ FinalCheckHead
    \/ Propagate
    \/ RoundEnd
    \/ IsSat
    \/ MkModel
    \/ OnModel

RootsSpec == Init /\ [][NextRoots]_vars

(***************************************************************************)
(* Properties of the phases of a round.                                    *)
(***************************************************************************)
\* C25: after a propagate_literal hook raised the new-constraint flag, no
\* propagate_literal hook is called for a further root literal of the round.
C25_RootAbort ==
    [][(/\ pc = "propagate_literal"
        /\ last_hook[1] = "propagate_literal"
        /\ last_op \in {"add_constraint", "add_clause_lits"}
        /\ m_new_constraint)
       => last_hook'[1] # "propagate_literal"]_vars

\* C26: no id is taken from the repair-up set while the repair-down set is
\* non-empty.
C26_DownBeforeUp ==
    [][(/\ pc = "repair_up"
        /\ drain_condition(m_new_constraint, limit_ok, m_repair_up)
        /\ limit_ok')
       => m_repair_down = {}]_vars

\* the hooks of the repair phase, LITERAL_REPAIR and FINAL_CHECK
RepairHooks == {"repair_down", "repair_up", "repair_literal", "propagate"}

\* C27: while the new-constraint flag is raised, no repair_down, repair_up,
\* repair_literal or propagate hook is called.
C27_NoRepairAfterFlag ==
    [][m_new_constraint => last_hook'[1] \notin RepairHooks]_vars

\* a repair_down hook raised the flag while the repair-up set has an entry left
C27_Witness ==
    /\ last_hook[1] = "repair_down"
    /\ last_op = "add_constraint"
    /\ m_new_constraint
    /\ m_repair_up # {}

\* the phase of a position of propagate_boolean_assignment, 0 outside a round
phase_of_pc(p) ==
    IF p = "start_propagation" THEN 1
    ELSE IF p = "propagate_literal" THEN 2
    ELSE IF p \in {"repair", "repair_down", "repair_up"} THEN 3
    ELSE IF p = "repair_literals" THEN 4
    ELSE IF p \in {"final_check", "propagate"} THEN 5
    ELSE 0

\* the phase in which a hook of the round is called, 0 for the other hooks
phase_of_hook(h) ==
    IF h = "start_propagation" THEN 1
    ELSE IF h = "propagate_literal" THEN 2
    ELSE IF h \in {"repair_down", "repair_up"} THEN 3
    ELSE IF h = "repair_literal" THEN 4
    ELSE IF h = "propagate" THEN 5
    ELSE 0

\* C28: a hook of the round is called in its phase, the phases of a round follow
\* each other in order (a round leaves a phase only for a later one or for its
\* end), and repair_literal gets a literal that is true under the assignment.
C28_PhaseOrder ==
    [][/\ phase_of_hook(last_hook'[1]) # 0 => phase_of_hook(last_hook'[1]) = phase_of_pc(pc)
       /\ phase_of_pc(pc) # 0 /\ phase_of_pc(pc') # 0 => phase_of_pc(pc) <= phase_of_pc(pc')
       /\ phase_of_pc(pc') = 1 => phase_of_pc(pc) \in {0, 1}
       /\ last_hook'[1] = "repair_literal" => is_true(last_hook'[2], true_vars)]_vars

\* a propagate hook is called in a round that took an id from a worklist
C28_Witness ==
    /\ last_hook[1] = "propagate"
    /\ dequeued
    /\ m_root_literals # <<>>

\* C29: in a round whose repair hooks call no new_value_eh, every id is taken from
\* the repair-down set at most once and from the repair-up set at most once, and
\* when the repair loop is left with the flag down and the limit not expired
\* both sets are empty.
C29_DrainOnce ==
    /\ taken.state # "again"
    /\ (pc = "repair_literals" /\ k = 0 /\ ~m_new_constraint /\ limit_ok /\ taken.state = "once")
          => m_repair_down = {} /\ m_repair_up = {}

\* x <= y was taken from repair-down, escalated and taken from repair-up, and the
\* repair loop has ended with both sets empty
C29_Witness ==
    /\ pc = "repair_literals" /\ k = 0 /\ ~m_new_constraint /\ limit_ok
    /\ taken.state = "once"
    /\ 3 \in taken.down \cap taken.up
    /\ m_repair_down = {} /\ m_repair_up = {}

\* m_plugins.get(get_fid(e), nullptr) is null for the application e
no_plugin(e) == e # 0 /\ is_app(e) /\ owner(e) = null_family_id

\* C24: no step of the round gets past a term or literal whose family id has no
\* plugin: no such id is taken from the repair-down or the repair-up set with
\* the loop going on, and neither propagate_literal nor repair_literals goes on
\* to the next literal after a literal with such an atom.
C24_NoSilentSkip ==
    [][/\ pc = "repair_down" => \A id \in m_repair_down \ m_repair_down' : ~no_plugin(id)
       /\ pc = "repair_up" => \A id \in m_repair_up \ m_repair_up' : ~no_plugin(id)
       /\ (pc = "propagate_literal" /\ k' = k + 1 /\ is_true(m_root_literals[k], true_vars))
             => ~no_plugin(atom_of(m_atoms, lit_var(m_root_literals[k])))
       /\ (pc = "repair_literals" /\ k' = k + 1) => ~no_plugin(atom_of(m_atoms, k))]_vars

\* C23: a call of init() in an initialized context leaves the unit set, the term
\* registry with the parent map, the atom table and the initialized mark
\* unchanged, lowers the flag and calls no plugin's initialize; the first call
\* collects the unit clauses, registers the subterms of every atom and goes on to
\* the plugins' initialize.
C23_InitOnce ==
    [][(pc = "idle" /\ pc' # "idle") =>
         /\ ~m_new_constraint'
         /\ m_initialized'
         /\ IF m_initialized
            THEN /\ UNCHANGED <<m_unit_literals, Registry>>
                 /\ pc' = "while"
            ELSE /\ m_unit_literals' = unit_literals(clauses)
                 /\ \A v \in 0..(num_vars - 1) :
                       atom_of(m_atoms, v) # 0 => contained({atom_of(m_atoms, v)}) \subseteq m_allterms'
                 /\ pc' = "initialize"]_vars

\* init() was called in an initialized context whose skeleton has a unit clause
\* that is not in the unit set, and no round of this check() has ended
C23_Witness ==
    /\ pc = "while"
    /\ m_initialized
    /\ last_hook = <<"none">>
    /\ round_end = <<>>
    /\ ~m_new_constraint
    /\ m_unit_literals # unit_literals(clauses)

ReentrantTerms == {3, 4, 10}

\* the registry in a pass of register_terms over t, at line 435
in_pass(t, B) == [B EXCEPT !.subterms = <<>>, !.todo = <<t>>]

\* B2 is B1 with x pushed on the work-stack, when x is not visited, and nothing
\* else of the registry or the skeleton changed
only_pushed(x, B1, B2) ==
    /\ B2.todo = (IF is_visited(x, B1) THEN B1.todo ELSE Append(B1.todo, x))
    /\ B2.allterms = B1.allterms
    /\ B2.parents = B1.parents
    /\ B2.nreg = B1.nreg
    /\ B2.log = B1.log
    /\ B2.atoms = B1.atoms
    /\ B2.a2v = B1.a2v
    /\ B2.num_vars = B1.num_vars
    /\ B2.clauses = B1.clauses

\* the pass has ended with an empty work-stack and x, t and their subterms visited
pass_complete(x, t, B3) ==
    /\ B3.todo = <<>>
    /\ contained({x, t}) \subseteq B3.allterms

\* C21: register_terms(x) called during a pass over t only pushes x, and the pass
\* ends with an empty work-stack and with x, t and all their subterms registered;
\* every call leaves the work-stack empty.
C21_Reentrant ==
    /\ m_todo = <<>>
    /\ \A t \in RegisterRoots \ m_allterms : \A x \in ReentrantTerms :
          /\ only_pushed(x, in_pass(t, Cur.B), register_terms(x, in_pass(t, Cur.B)))
          /\ pass_complete(x, t, register_loop(register_terms(x, in_pass(t, Cur.B))))

\* register_terms(p or x <= y) ran on fresh terms: mk_literal(p) at line 451 called
\* register_terms(p) with p or x <= y on the work-stack, and p was registered once
C21_Witness ==
    /\ last_hook = <<"register_terms", 8>>
    /\ hook_ops = 1
    /\ m_todo = <<>>
    /\ contained({8}) \subseteq m_allterms
    /\ m_atom2bool_var[4] # null_bool_var
    /\ nreg[4] = 1

(***************************************************************************)
(* check() under a scheduler that keeps running it: the control of a       *)
(* running check() does not stay at one program point forever.  Every loop *)
(* of lines 81-110 and 113-164 is one program point of the model, so the   *)
(* condition lets a loop run as long as the code lets it.                  *)
(***************************************************************************)

\* the program points of check() and propagate_boolean_assignment
PcValues ==
    {"idle", "initialize", "while", "start_propagation", "propagate_literal", "repair",
     "repair_down", "repair_up", "repair_literals", "final_check", "propagate",
     "round_end", "is_sat", "mk_model", "on_model"}

\* the control of a running check() moves to a program point
Advance == pc # "idle" /\ pc' \in PcValues

FairSpec == Spec /\ WF_pc(Advance)

\* C30: once the resource limit has expired during a check(), the check()
\* eventually returns to its caller.
C30_CancellationLive == (~limit_ok /\ pc # "idle") ~> (pc = "idle")

\* line 158 holds after a pass of lines 160-161 in which a plugin reported
\* progress: the final-check loop begins another pass
AnotherPass ==
    /\ pc = "final_check"
    /\ propagated
    /\ ~m_new_constraint
    /\ last_hook[1] = "propagate"

\* C30, amended: once the resource limit has expired during a check(), the
\* check() eventually returns to its caller or its final-check loop, which does
\* not test the limit, begins another pass.
C30_CancellationUnlessFinalCheck ==
    (~limit_ok /\ pc # "idle") ~> (pc = "idle" \/ AnotherPass)

\* check() has returned l_undef after the limit expired in a round that left an
\* id in the repair-down set, with the flag down
C30_Witness ==
    /\ pc = "idle"
    /\ ~limit_ok
    /\ result = l_undef
    /\ ~m_new_constraint
    /\ ~late_nv
    /\ round_end # <<>>
    /\ m_repair_down # {}


(***************************************************************************)
(* datatype_plugin::propagate: the occurs check over the E-graph.          *)
(***************************************************************************)

\* the congruence-class roots of g->nodes(), in the order of the E-graph
DtNodes == <<"u", "v", "w">>
DtClasses == Range(DtNodes)

\* the largest number of constructor-argument edges of an E-graph
MaxDtEdges == 3

\* An E-graph as propagate() reads it: roots are the classes whose root is a
\* relevant datatype term, edges holds <<c, d>> when d is the class of an
\* argument of get_constructor(c), small_sort says that the datatype sort is
\* finite with fewer elements than there are relevant roots.
DtGraphs ==
    [roots : SUBSET DtClasses,
     edges : {E \in SUBSET (DtClasses \X DtClasses) : Cardinality(E) <= MaxDtEdges},
     small_sort : BOOLEAN]

\* euf::enode_args(con) with only the first argument
children_first_only(n, E) ==
    LET all == SelectSeq(DtNodes, LAMBDA d : <<n, d>> \in E)
    IN  IF all = <<>> THEN <<>> ELSE <<all[1]>>

\* euf::enode_args(get_constructor(n)): the classes of the arguments, in argument
\* order; empty for a class without constructor
children(n, E) == SelectSeq(DtNodes, LAMBDA d : <<n, d>> \in E)

\* set_conflict: the part of the stack from the class of n to the top, whose
\* disequalities the constraint lists
set_conflict(n, stack) ==
    SubSeq(stack, CHOOSE j \in 1..Len(stack) : stack[j] = n, Len(stack))

\* the while loop of the depth-first traversal
RECURSIVE dt_dfs(_, _, _)
dt_dfs(E, color, stack) ==
    IF stack = <<>> THEN [conflict |-> <<>>, color |-> color]
    ELSE IF color[Last(stack)] = "black" THEN dt_dfs(E, color, Front(stack))
    ELSE LET n == Last(stack)
             grey == [color EXCEPT ![n] = "grey"]
             open == SelectSeq(children(n, E), LAMBDA c : grey[c] # "black")
         IN  IF open = <<>> THEN dt_dfs(E, [grey EXCEPT ![n] = "black"], Front(stack))
             ELSE IF grey[open[1]] = "grey"
                  THEN [conflict |-> set_conflict(open[1], stack), color |-> grey]
                  ELSE dt_dfs(E, grey, Append(stack, open[1]))

\* the loop over g->nodes()
RECURSIVE dt_roots(_, _, _)
dt_roots(i, G, color) ==
    IF i > Len(DtNodes) THEN [ret |-> FALSE, cycle |-> <<>>]
    ELSE IF DtNodes[i] \notin G.roots \/ color[DtNodes[i]] = "black"
         THEN dt_roots(i + 1, G, color)
    ELSE LET d == dt_dfs(G.edges, color, <<DtNodes[i]>>)
         IN  IF d.conflict # <<>> THEN [ret |-> TRUE, cycle |-> d.conflict]
             ELSE dt_roots(i + 1, G, d.color)

\* datatype_plugin::propagate: the value returned, the classes of the reported
\* cycle, the increase of m_num_occurs and the number of add_constraint calls
dt_propagate(G) ==
    LET r == dt_roots(1, G, [c \in DtClasses |-> "white"])
    IN  [ret |-> r.ret,
         cycle |-> r.cycle,
         occurs |-> IF r.ret THEN 1 ELSE 0,
         constraints |-> IF r.ret THEN 1
                         ELSE IF G.small_sort /\ G.roots # {} THEN 1 ELSE 0]

\* the plugin's propagate() is called on the current E-graph
DtPropagate ==
    /\ dt_in # <<>>
    /\ dt_out = <<>>
    /\ dt_out' = dt_propagate(dt_in)
    /\ UNCHANGED <<ctx_vars, dt_in, lra, m_e_matrix, m_eprime, m_f, m_s, m_k2s,
                   m_report_branch, m_conflict_index, glb, dio_pc, dio_ret, dio_calls>>

OccursInit ==
    /\ ContextInit
    /\ DioIdle
    /\ dt_in \in DtGraphs
    /\ dt_out = <<>>

NextOccurs == DtPropagate

OccursSpec == OccursInit /\ [][NextOccurs]_vars

\* the classes that can be reached from the classes of S
RECURSIVE dt_reach(_, _)
dt_reach(E, S) ==
    IF {e[2] : e \in {x \in E : x[1] \in S}} \subseteq S THEN S
    ELSE dt_reach(E, S \cup {e[2] : e \in {x \in E : x[1] \in S}})

\* class c lies on a cycle of E
on_cycle(E, c) == c \in dt_reach(E, {e[2] : e \in {x \in E : x[1] = c}})

\* C35, as stated: propagate() returns true and adds one occurs-check constraint
\* exactly when the graph whose nodes are the relevant datatype roots has a cycle.
C35_CycleAmongRelevant ==
    dt_out # <<>> =>
        LET E == {e \in dt_in.edges : e[1] \in dt_in.roots /\ e[2] \in dt_in.roots}
        IN  /\ dt_out.ret = (\E c \in dt_in.roots : on_cycle(E, c))
            /\ dt_out.occurs = IF dt_out.ret THEN 1 ELSE 0

\* C35: propagate() returns true and adds one occurs-check constraint, over the
\* classes of a cycle, exactly when a cycle can be reached from a relevant
\* datatype root; otherwise it returns false and adds no occurs-check constraint.
C35_CycleReachable ==
    dt_out # <<>> =>
        /\ dt_out.ret = (\E c \in dt_reach(dt_in.edges, dt_in.roots) : on_cycle(dt_in.edges, c))
        /\ dt_out.occurs = IF dt_out.ret THEN 1 ELSE 0
        /\ dt_out.ret =>
              /\ dt_out.constraints = 1
              /\ dt_out.cycle # <<>>
              /\ \A i \in 1..Len(dt_out.cycle) :
                    <<dt_out.cycle[i], dt_out.cycle[(i % Len(dt_out.cycle)) + 1]>> \in dt_in.edges
        /\ ~dt_out.ret => dt_out.cycle = <<>>

\* a cycle of two classes without relevant root was reported from the relevant root u
C35_Witness ==
    /\ dt_out # <<>>
    /\ dt_in.roots = {"u"}
    /\ dt_out.ret
    /\ Len(dt_out.cycle) = 2
    /\ "u" \notin Range(dt_out.cycle)


(***************************************************************************)
(* dioph_eq::imp.  Rows, entries and columns are numbered from 1: index i  *)
(* stands for index i - 1 of the code; -1 stands for null_lpvar and        *)
(* UINT_MAX.  The dependencies m_l are not modelled.                       *)
(***************************************************************************)

\* the coefficients of the rows of the lar_solver; none of them is_big()
DioCoeffs == {-2, 0, 2, 3}

\* a row of the lar_solver over three columns, with at least one cell
DioRowSet == (DioCoeffs \X DioCoeffs \X DioCoeffs) \ {<<0, 0, 0>>}

\* the columns: integer, integer and fixed at its lower bound 1, or real
DioColumnKinds ==
    {<<"int", "int", "int">>, <<"int", "int", "fixed">>,
     <<"fixed", "fixed", "fixed">>, <<"int", "int", "real">>}

\* the lar_solver: one or two rows
DioSystems ==
    [rows : {<<r>> : r \in DioRowSet} \cup (DioRowSet \X DioRowSet), kind : DioColumnKinds]

\* the value of glb when the dioph_eq is constructed: the check() calls that
\* other dioph_eq objects of the process have made
DioEarlierCalls == {0, 10}

\* the calls of check() that exit(0) lets through
GlbLimit == 10

\* the largest number of check() calls on one dioph_eq
MaxDioCalls == 2

DioCur ==
    [e_matrix |-> m_e_matrix, eprime |-> m_eprime, f |-> m_f, s |-> m_s, k2s |-> m_k2s,
     report_branch |-> m_report_branch, conflict_index |-> m_conflict_index]

DioCommit(D) ==
    /\ m_e_matrix' = D.e_matrix
    /\ m_eprime' = D.eprime
    /\ m_f' = D.f
    /\ m_s' = D.s
    /\ m_k2s' = D.k2s
    /\ m_report_branch' = D.report_branch
    /\ m_conflict_index' = D.conflict_index

abs(a) == IF a < 0 THEN -a ELSE a

\* gcd of two integers, not negative
RECURSIVE gcd(_, _)
gcd(a, b) == IF b = 0 THEN abs(a) ELSE gcd(abs(b), abs(a) % abs(b))

\* machine_div_rem: the quotient rounded towards zero and the remainder
machine_div_rem(a, b) ==
    [q |-> IF (a < 0) = (b < 0) THEN abs(a) \div abs(b) ELSE -(abs(a) \div abs(b)),
     r |-> IF a < 0 THEN -(abs(a) % abs(b)) ELSE abs(a) % abs(b)]

\* lra.column_count()
column_count == Len(lra.kind)

is_fresh_var(j) == j > column_count

all_vars_are_int_and_small(row) ==
    \A j \in 1..Len(row) : row[j] # 0 => lra.kind[j] # "real"

\* the constant that fill_eprime_entry collects from the fixed columns of a row
RECURSIVE fixed_part(_, _)
fixed_part(row, j) ==
    IF j = 0 THEN 0
    ELSE fixed_part(row, j - 1) + (IF lra.kind[j] = "fixed" THEN row[j] * 1 ELSE 0)

\* fill_eprime_entry: the row of the matrix and the entry of a row of the lar_solver
fill_eprime_entry(row, row_index) ==
    [cells |-> [j \in 1..Len(row) |-> IF lra.kind[j] = "fixed" THEN 0 ELSE row[j]],
     entry |-> [m_row_index |-> row_index, m_c |-> fixed_part(row, Len(row)),
                m_entry_status |-> "F"]]

\* dioph_eq::imp::init
init(D) ==
    LET n == Len(lra.rows)
        ok == {i \in 1..n : all_vars_are_int_and_small(lra.rows[i])}
    IN  [D EXCEPT
           !.e_matrix = [i \in 1..n |->
                           IF i \in ok THEN fill_eprime_entry(lra.rows[i], i).cells
                           ELSE [j \in 1..column_count |-> 0]],
           !.report_branch = FALSE,
           !.k2s = [j \in 1..column_count |-> -1],
           !.conflict_index = -1,
           !.eprime = [i \in 1..n |->
                         IF i \in ok THEN fill_eprime_entry(lra.rows[i], i).entry
                         ELSE [m_row_index |-> 1, m_c |-> 0, m_entry_status |-> "NO_S_NO_F"]],
           !.f = @ \o SelectSeq([i \in 1..n |-> i], LAMBDA i : i \in ok)]

RECURSIVE gcd_of_cells(_, _, _)
gcd_of_cells(row, j, g) ==
    IF j > Len(row) \/ g = 1 THEN g
    ELSE IF row[j] = 0 THEN gcd_of_cells(row, j + 1, g)
    ELSE gcd_of_cells(row, j + 1, IF g = 0 THEN abs(row[j]) ELSE gcd(g, row[j]))

gcd_of_row(row_index, D) == gcd_of_cells(D.e_matrix[row_index], 1, 0)

has_fresh_var(row_index, D) ==
    \E j \in 1..Len(D.e_matrix[row_index]) : is_fresh_var(j) /\ D.e_matrix[row_index][j] # 0

\* normalize_e_by_gcd that leaves the constant of the row undivided
normalize_e_by_gcd_keep_c(row_index, D, cut) ==
    IF gcd_of_row(row_index, D) \in {0, 1} THEN [ok |-> TRUE, D |-> D]
    ELSE IF D.eprime[row_index].m_c % gcd_of_row(row_index, D) = 0
    THEN [ok |-> TRUE,
          D |-> [D EXCEPT !.e_matrix[row_index] =
                              [j \in 1..Len(@) |-> @[j] \div gcd_of_row(row_index, D)]]]
    ELSE [ok |-> FALSE,
          D |-> IF cut /\ ~has_fresh_var(D.eprime[row_index].m_row_index, D)
                THEN [D EXCEPT !.report_branch = TRUE] ELSE D]

\* normalize_e_by_gcd; cut stands for the test of the conflict statistics against
\* dio_cut_from_proof_period
normalize_e_by_gcd(row_index, D, cut) ==
    IF gcd_of_row(row_index, D) \in {0, 1} THEN [ok |-> TRUE, D |-> D]
    ELSE IF D.eprime[row_index].m_c % gcd_of_row(row_index, D) = 0
    THEN [ok |-> TRUE,
          D |-> [D EXCEPT !.e_matrix[row_index] =
                              [j \in 1..Len(@) |-> @[j] \div gcd_of_row(row_index, D)],
                          !.eprime[row_index].m_c = @ \div gcd_of_row(row_index, D)]]
    ELSE [ok |-> FALSE,
          D |-> IF cut /\ ~has_fresh_var(D.eprime[row_index].m_row_index, D)
                THEN [D EXCEPT !.report_branch = TRUE] ELSE D]

\* normalize_by_gcd, from position i of m_f on
RECURSIVE normalize_by_gcd(_, _, _)
normalize_by_gcd(i, D, cut) ==
    IF i > Len(D.f) THEN [ok |-> TRUE, D |-> D]
    ELSE IF normalize_e_by_gcd(D.f[i], D, cut).ok
         THEN normalize_by_gcd(i + 1, normalize_e_by_gcd(D.f[i], D, cut).D, cut)
         ELSE [ok |-> FALSE,
               D |-> [normalize_e_by_gcd(D.f[i], D, cut).D EXCEPT !.conflict_index = D.f[i]]]

\* the row has a cell
has_cell(row) == \E j \in 1..Len(row) : row[j] # 0

\* find_minimal_abs_coeff on a row with a cell
find_minimal_abs_coeff(row) ==
    LET xk == CHOOSE j \in 1..Len(row) :
                /\ row[j] # 0
                /\ \A i \in 1..Len(row) :
                      row[i] # 0 => \/ abs(row[j]) < abs(row[i])
                                    \/ abs(row[j]) = abs(row[i]) /\ j <= i
    IN  [ahk |-> abs(row[xk]), k |-> xk, k_sign |-> IF row[xk] > 0 THEN 1 ELSE -1]

\* static_matrix::pivot_row_to_row_given_cell_with_sign: adds the pivot row,
\* times sign and the coefficient of the cell, to the row of the cell
pivot_row_to_row_given_cell_with_sign(piv_row, row, coeff, sign) ==
    [j \in 1..Len(row) |-> row[j] + sign * coeff * piv_row[j]]

\* eliminate_var_in_f: the rows with status F that have a cell in column j
eliminate_var_in_f(piv_row_index, j, j_sign, D) ==
    LET hit == {c \in 1..Len(D.e_matrix) :
                   /\ c # piv_row_index
                   /\ D.e_matrix[c][j] # 0
                   /\ D.eprime[c].m_entry_status = "F"}
    IN  [D EXCEPT
           !.eprime = [c \in 1..Len(@) |->
                         IF c \in hit
                         THEN [@[c] EXCEPT !.m_c = @ - j_sign * D.e_matrix[c][j]
                                                        * D.eprime[piv_row_index].m_c]
                         ELSE @[c]],
           !.e_matrix = [c \in 1..Len(@) |->
                           IF c \in hit
                           THEN pivot_row_to_row_given_cell_with_sign(
                                    @[piv_row_index], @[c], @[c][j], -j_sign)
                           ELSE @[c]]]

\* move_entry_from_f_to_s for the first entry of m_f
move_entry_from_f_to_s(xk, D) ==
    [D EXCEPT !.eprime[D.f[1]].m_entry_status = "S",
              !.s = Append(@, D.f[1]),
              !.k2s = [j \in 1..(IF xk > Len(@) THEN xk ELSE Len(@)) |->
                          IF j = xk THEN D.f[1] ELSE IF j <= Len(@) THEN @[j] ELSE -1],
              !.f = Tail(@)]

\* fresh_var_step up to the write of m_k2s, when the reference e still reads
\* the row index of the entry after the push_back
fresh_var_rows(e_index, xk, ahk, D) ==
    LET h == D.eprime[e_index].m_row_index
        work == D.e_matrix[h]
        xt == Len(work) + 1
        fresh_row == Len(D.e_matrix) + 1
    IN  [D EXCEPT
           !.e_matrix =
               [c \in 1..fresh_row |->
                  [j \in 1..xt |->
                     IF c = h
                     THEN IF j = xt THEN ahk
                          ELSE IF j = xk THEN 0 ELSE machine_div_rem(work[j], ahk).r
                     ELSE IF c = fresh_row
                     THEN IF j = xt THEN -1
                          ELSE IF j = xk THEN 1 ELSE machine_div_rem(work[j], ahk).q
                     ELSE IF j = xt THEN 0 ELSE @[c][j]]],
           !.eprime = Append([@ EXCEPT ![e_index].m_c = machine_div_rem(@, ahk).r],
                             [m_row_index |-> fresh_row,
                              m_c |-> machine_div_rem(D.eprime[e_index].m_c, ahk).q,
                              m_entry_status |-> "S"]),
           !.s = Append(@, fresh_row)]

\* fresh_var_step, when no access leaves its object
fresh_var_step(e_index, xk, ahk, D) ==
    eliminate_var_in_f(Len(D.e_matrix) + 1, xk, 1,
        [fresh_var_rows(e_index, xk, ahk, D) EXCEPT !.k2s[xk] = Len(D.eprime) + 1])

\* rewrite_eqs on a picked row with a cell, when no access leaves its object
rewrite_eqs(D) ==
    LET row_index == D.eprime[D.f[1]].m_row_index
        m == find_minimal_abs_coeff(D.e_matrix[row_index])
    IN  IF m.ahk = 1
        THEN eliminate_var_in_f(row_index, m.k, m.k_sign, move_entry_from_f_to_s(m.k, D))
        ELSE fresh_var_step(D.f[1], m.k, m.ahk * m.k_sign, D)

\* What rewrite_eqs leaves undefined: the picked row has no cell, so that xk and
\* k_sign are read uninitialized and the step divides by ahk = 0 ("row");
\* fresh_var_step reads e.m_row_index after m_eprime.push_back ("reference") or
\* writes m_k2s[xk] for a fresh xk behind its end ("k2s"); print_S reads the entry
\* of an index of m_s that m_eprime no longer has ("print").
undefined_steps(D) ==
    IF ~has_cell(D.e_matrix[D.eprime[D.f[1]].m_row_index]) THEN {"row"}
    ELSE (IF find_minimal_abs_coeff(D.e_matrix[D.eprime[D.f[1]].m_row_index]).ahk # 1
          THEN {"reference"} \cup
               (IF find_minimal_abs_coeff(D.e_matrix[D.eprime[D.f[1]].m_row_index]).k
                      > Len(D.k2s)
                THEN {"k2s"} ELSE {})
          ELSE {})
         \cup (IF \E n \in 1..Len(rewrite_eqs(D).s) :
                        rewrite_eqs(D).s[n] > Len(rewrite_eqs(D).eprime)
               THEN {"print"} ELSE {})

DioUndefined == {"undefined_row", "undefined_reference", "undefined_k2s", "undefined_print"}

lia_moves == {"undef", "branch", "conflict"}

DioOther == <<ctx_vars, dt_in, dt_out, lra>>

\* check() is called: the counter, exit(0), init()
DioCheck ==
    /\ dio_pc = "idle"
    /\ dio_calls < MaxDioCalls
    /\ glb' = glb + 1
    /\ dio_calls' = dio_calls + 1
    /\ dio_ret' = "none"
    /\ IF glb + 1 > GlbLimit
       THEN dio_pc' = "exited" /\ DioCommit(DioCur)
       ELSE dio_pc' = "init_done" /\ DioCommit(init(DioCur))
    /\ UNCHANGED DioOther

\* the loop test fails: return lia_move::undef
DioReturnUndef ==
    /\ dio_pc \in {"init_done", "loop"}
    /\ m_f = <<>>
    /\ dio_pc' = "idle"
    /\ dio_ret' = "undef"
    /\ DioCommit(DioCur)
    /\ UNCHANGED <<DioOther, glb, dio_calls>>

\* normalize_by_gcd in the loop body: on a conflict check() returns
DioNormalize ==
    /\ dio_pc \in {"init_done", "loop"}
    /\ m_f # <<>>
    /\ \E cut \in BOOLEAN :
          IF normalize_by_gcd(1, DioCur, cut).ok
          THEN /\ DioCommit(normalize_by_gcd(1, DioCur, cut).D)
               /\ dio_pc' = "rewrite"
               /\ dio_ret' = dio_ret
          ELSE /\ DioCommit([normalize_by_gcd(1, DioCur, cut).D EXCEPT !.report_branch = FALSE])
               /\ dio_pc' = "idle"
               /\ dio_ret' = IF normalize_by_gcd(1, DioCur, cut).D.report_branch
                             THEN "branch" ELSE "conflict"
    /\ UNCHANGED <<DioOther, glb, dio_calls>>

\* rewrite_eqs in the loop body
DioRewrite ==
    /\ dio_pc = "rewrite"
    /\ \/ /\ undefined_steps(DioCur) \subseteq {"reference", "k2s", "print"}
          /\ DioCommit(IF "k2s" \in undefined_steps(DioCur)
                       THEN [rewrite_eqs(DioCur) EXCEPT !.k2s = m_k2s]
                       ELSE rewrite_eqs(DioCur))
          /\ dio_pc' = "loop"
       \/ /\ \E u \in undefined_steps(DioCur) : dio_pc' = "undefined_" \o u
          /\ DioCommit(DioCur)
    /\ UNCHANGED <<DioOther, glb, dio_calls, dio_ret>>

DiophInit ==
    /\ ContextInit
    /\ DtIdle
    /\ lra \in DioSystems
    /\ m_e_matrix = <<>>
    /\ m_eprime = <<>>
    /\ m_f = <<>>
    /\ m_s = <<>>
    /\ m_k2s = <<>>
    /\ m_report_branch = FALSE
    /\ m_conflict_index = -1
    /\ glb \in DioEarlierCalls
    /\ dio_pc = "idle"
    /\ dio_ret = "none"
    /\ dio_calls = 0

NextDioph ==
    \/ DioCheck
    \/ DioReturnUndef
    \/ DioNormalize
    \/ DioRewrite

DiophSpec == DiophInit /\ [][NextDioph]_vars

(***************************************************************************)
(* Properties of dioph_eq::imp.                                            *)
(***************************************************************************)

\* the value of the row with constant c under the assignment x
RECURSIVE row_value(_, _, _, _)
row_value(row, c, x, j) ==
    IF j = 0 THEN c ELSE row_value(row, c, x, j - 1) + row[j] * x[j]

\* the integer assignments of n variables that the properties look at
DioBox(n) == [1..n -> {-1, 0, 1}]

\* the largest absolute value of a cell of the row
RECURSIVE max_abs(_, _)
max_abs(row, j) ==
    IF j = 0 THEN 0
    ELSE IF abs(row[j]) > max_abs(row, j - 1) THEN abs(row[j]) ELSE max_abs(row, j - 1)

\* the greatest common divisor of the cells of the row, 0 for a row without cell
row_gcd(row) ==
    IF ~has_cell(row) THEN 0
    ELSE CHOOSE d \in 1..max_abs(row, Len(row)) :
            /\ \A j \in 1..Len(row) : row[j] % d = 0
            /\ \A d2 \in (d + 1)..max_abs(row, Len(row)) : \E j \in 1..Len(row) : row[j] % d2 # 0

\* C36: every row that rewrite_eqs picks has a cell with a non-zero coefficient,
\* so that each step of the loop of check() is defined and moves on.
C36_PickedRowHasCell ==
    /\ dio_pc # "undefined_row"
    /\ dio_pc = "rewrite" => has_cell(m_e_matrix[m_eprime[m_f[1]].m_row_index])

C38_StepPreserves ==
    [][(dio_pc = "rewrite" /\ has_cell(m_e_matrix[m_eprime[m_f[1]].m_row_index])) =>
        LET h == m_eprime[m_f[1]].m_row_index
            m == find_minimal_abs_coeff(m_e_matrix[h])
            a == m.ahk * m.k_sign
            piv == IF m.ahk = 1 THEN h ELSE Len(m_e_matrix) + 1
        IN  /\ dio_pc' = "loop"
            /\ m.ahk # 1 =>
                  /\ Len(m_e_matrix') = Len(m_e_matrix) + 1
                  /\ m_e_matrix'[h][Len(m_e_matrix[h]) + 1] = a
                  /\ m_e_matrix'[piv][Len(m_e_matrix[h]) + 1] = -1
                  /\ m_e_matrix'[piv][m.k] = 1
                  /\ \A j \in 1..Len(m_e_matrix[h]) :
                        j # m.k => /\ m_e_matrix[h][j] = m_e_matrix'[piv][j] * a + m_e_matrix'[h][j]
                                   /\ abs(m_e_matrix'[h][j]) < m.ahk
                  /\ m_eprime[h].m_c = m_eprime'[piv].m_c * a + m_eprime'[h].m_c
            /\ \A c \in 1..Len(m_e_matrix) :
                  m_eprime'[c].m_entry_status = "F" =>
                      /\ m_e_matrix'[c][m.k] = 0
                      /\ c # h =>
                            \A x \in DioBox(Len(m_e_matrix'[c])) :
                                row_value(m_e_matrix'[piv], m_eprime'[piv].m_c, x, Len(x)) = 0
                                  => row_value(m_e_matrix'[c], m_eprime'[c].m_c, x, Len(x))
                                     = row_value(m_e_matrix[c], m_eprime[c].m_c, x, Len(m_e_matrix[c]))
    ]_vars

\* C39: when check() has run init(), F lists the rows of the lar_solver whose
\* variables are all integer, each once and with status F, and S is empty; at
\* every time an entry is in F, in S or in neither, as its status says.
C39_FreshSets ==
    /\ dio_pc = "init_done" =>
          /\ m_s = <<>>
          /\ m_f = SelectSeq([i \in 1..Len(lra.rows) |-> i],
                             LAMBDA i : all_vars_are_int_and_small(lra.rows[i]))
          /\ \A n \in 1..Len(m_f) : m_eprime[m_f[n]].m_entry_status = "F"
    /\ dio_pc \in {"init_done", "loop", "rewrite"} =>
          \A i \in 1..Len(m_eprime) :
              /\ Cardinality({n \in 1..Len(m_f) : m_f[n] = i})
                    = IF m_eprime[i].m_entry_status = "F" THEN 1 ELSE 0
              /\ Cardinality({n \in 1..Len(m_s) : m_s[n] = i})
                    = IF m_eprime[i].m_entry_status = "S" THEN 1 ELSE 0

\* C40: a call of check() ends by returning undef, branch or conflict.
C40_ReturnsLiaMove ==
    /\ dio_pc # "exited"
    /\ (dio_pc = "idle" /\ dio_calls > 0) => dio_ret \in lia_moves

====
